---- MODULE Spec2Model ----
(***************************************************************************)
(* Model of the Cliperus recording pipeline (src/app_fixed.py) and its     *)
(* liveness monitor (src/stream_monitor.py): the session record            *)
(* current_recording_info, the Recording / Stream / Clip / TriggerEvent /  *)
(* Upload tables, the three background workers and the request handlers    *)
(* that touch them.                                                        *)
(*                                                                         *)
(* Time is an integer clock `now`; durations are integers in the same      *)
(* unit.  Python's None is the value None below; a value is "truthy" when  *)
(* it is neither None nor 0.  Row ids are positions in the table           *)
(* sequences (autoincrement primary keys).                                 *)
(***************************************************************************)
EXTENDS Integers, Sequences, FiniteSets, TLC

VARIABLES
    current_recording_info, \* the global session dict
    recordings,             \* table Recording, id = index
    streams,                \* table Stream, id -> row
    obs_connected,          \* global obs_connected
    removed,                \* ids of Recordings whose file the pipeline has deleted
    now,                    \* wall clock
    sw,                     \* segment_worker: position and locals
    extracting,             \* process_segment_clips threads dispatched, not yet run
    extracted,              \* Recordings whose process_segment_clips thread has returned
    sessionSegs,            \* history: segment numbers created since the last session start
    triggers,               \* table ClipTrigger, id = index
    events,                 \* table TriggerEvent, id = index
    clips,                  \* table Clip, id = index
    tw,                     \* trigger_worker: position
    clip_threads,           \* process_clip threads started by create_clip, not yet run
    uploads,                \* table Upload, id = index
    threads,                \* upload_to_tiktok invocations in flight
    uw,                     \* upload_worker: position and locals
    accounts,               \* table TikTokAccount, id = index
    settings,               \* table Settings (the keys the pipeline reads)
    scoring,                \* one call of calculate_clip_score: arguments and result
    monitor,                \* history: inputs of the latest monitor pass under observation
    extraction,             \* history: inputs of the latest process_segment_clips run
    stream_monitor,         \* the StreamMonitor object: running, and its loop threads
    start_response          \* history: the latest observed POST /api/obs/start-recording

vars == <<current_recording_info, recordings, streams, obs_connected, removed, now,
          sw, extracting, extracted, sessionSegs, triggers, events, clips, tw,
          clip_threads, uploads, threads, uw, accounts, settings, scoring, monitor, extraction, stream_monitor,
                   start_response>>

triggerVars == <<triggers, events, tw>>
uploadVars == <<uploads, threads, uw, accounts, settings, scoring, monitor, extraction, stream_monitor,
                   start_response>>

----------------------------------------------------------------------------
(* Bounds of the model *)

MaxRecordings == 4
MaxTime == 4

(* Program constants *)

None == -1
SEGMENT_DURATION == 2

StreamIds == {1, 2}

Truthy(x) == x # None /\ x # 0

----------------------------------------------------------------------------
(* Session state and the Recording table *)

EmptyInfo ==
    [is_recording |-> FALSE, current_segment |-> 0, segment_start_time |-> None,
     stream_id |-> None, recording_id |-> None]

NewRecording(stream_id, segment_number) ==
    [stream_id |-> stream_id, segment_number |-> segment_number,
     status |-> "recording", duration |-> 0, file_size |-> 0, ended_at |-> FALSE]

FileSize(rid) == 1

MaxUploads == 1
MaxThreads == 2

(* One execution of upload_to_tiktok: the job it runs for, where it stands *)
(* and the next value of the progress loop.                                *)
IdleThread == [upload_id |-> 0, pc |-> "idle", progress |-> 0]

(* No monitor pass under observation: pass is a bit that every observed *)
(* pass flips, live and outcome are what the pass met per stream.       *)
NoPass ==
    [pass |-> 0, live |-> [s \in StreamIds |-> FALSE], outcome |-> [s \in StreamIds |-> "ok"]]

(* No call of calculate_clip_score under observation *)
NoCall == [pc |-> "idle", trigger_type |-> "manual", trigger_value |-> None, score |-> None]

(* The StreamMonitor as start_background_workers leaves it (lines 970-971): *)
(* running, with one loop thread, here in the sleep of line 85.             *)
StartedMonitor == [running |-> TRUE, loops |-> <<"sleep">>]

(* No start request observed yet; n tells one request from the next, obs_ok *)
(* is the outcome of its StartRecord call, status the HTTP status answered. *)
NoResponse == [n |-> 0, obs_ok |-> FALSE, status |-> 0]

(* No process_segment_clips run observed yet *)
NoExtraction ==
    [rid |-> None, file_exists |-> FALSE, cut_ok |-> <<>>, error |-> <<>>, delete_ok |-> FALSE]

Init ==
    /\ current_recording_info = EmptyInfo
    /\ recordings = <<>>
    /\ streams = [s \in StreamIds |->
                     [is_live |-> FALSE, is_recording |-> FALSE, auto_record |-> s = 1]]
    /\ obs_connected = FALSE
    /\ removed = {}
    /\ now = 0
    /\ sw = [pc |-> "pass", recording_id |-> None, elapsed |-> 0,
             segment_num |-> 0, stream_id |-> None, new_id |-> None]
    /\ extracting = {}
    /\ extracted = {}
    /\ sessionSegs = <<>>
    /\ triggers = <<>>
    /\ events = <<>>
    /\ clips = <<>>
    /\ tw = [pc |-> "pass"]
    /\ clip_threads = {}
    /\ uploads = <<>>
    /\ threads = [i \in 1..MaxThreads |-> IdleThread]
    /\ uw = [pc |-> "pass", queue |-> <<>>, runner |-> IdleThread]
    /\ accounts = <<>>
    /\ scoring = NoCall
    /\ monitor = NoPass
    /\ extraction = NoExtraction
    /\ stream_monitor = StartedMonitor
    /\ start_response = NoResponse
    /\ settings = [auto_delete_recordings |-> TRUE, auto_post_tiktok |-> FALSE,
                   tiktok_access_token |-> FALSE]

(* The clock advances. *)
Tick ==
    /\ now < MaxTime
    /\ now' = now + 1
    /\ UNCHANGED <<current_recording_info, recordings, streams,
                      obs_connected, removed, sw, extracting, extracted,
                      sessionSegs, clips, clip_threads, triggerVars,
                      uploadVars>>

(* POST /api/obs/connect and /api/obs/disconnect *)
connect_obs ==
    /\ \E success \in BOOLEAN : obs_connected' = success
    /\ UNCHANGED <<current_recording_info, recordings, streams, removed,
                      now, sw, extracting, extracted, sessionSegs, clips,
                      clip_threads, triggerVars, uploadVars>>

(* The start request creating the session whatever StartRecord answered *)
start_obs_recording_anyway(ids, cap, observed) ==
    \E stream_id \in ids, obs_ok \in BOOLEAN :
        LET success == obs_connected /\ obs_ok
            rid == Len(recordings) + 1
            response == [n |-> 1 - start_response.n, obs_ok |-> success,
                         status |-> IF TRUE THEN 200 ELSE 500]
        IN  /\ start_response' = IF observed THEN response ELSE start_response
            /\ IF TRUE
               THEN /\ Len(recordings) < cap
                    /\ recordings' = Append(recordings,
                           NewRecording(IF Truthy(stream_id) THEN stream_id ELSE 1, 1))
                    /\ current_recording_info' =
                           [is_recording |-> TRUE, current_segment |-> 1,
                            segment_start_time |-> now, stream_id |-> stream_id,
                            recording_id |-> rid]
                    /\ streams' = IF Truthy(stream_id)
                                  THEN [streams EXCEPT ![stream_id].is_recording = TRUE]
                                  ELSE streams
                    /\ sessionSegs' = <<1>>
               ELSE /\ observed
                    /\ UNCHANGED <<recordings, current_recording_info, streams, sessionSegs>>
            /\ UNCHANGED <<obs_connected, removed, now, sw, extracting, extracted,
                      clips, clip_threads, triggerVars, uploads, threads, uw, accounts,
                      settings, scoring, monitor, extraction, stream_monitor>>

(* POST /api/obs/start-recording for a stream_id drawn from ids (a Stream id *)
(* or None); obs_ok is the outcome of the StartRecord call when OBS is       *)
(* connected.  A failed StartRecord answers 500 and changes nothing; the     *)
(* model takes that request as a step only when the request is observed.     *)
start_obs_recording(ids, cap, observed) ==
    \E stream_id \in ids, obs_ok \in BOOLEAN :
        LET success == obs_connected /\ obs_ok
            rid == Len(recordings) + 1
            response == [n |-> 1 - start_response.n, obs_ok |-> success,
                         status |-> IF success \/ ~obs_connected THEN 200 ELSE 500]
        IN  /\ start_response' = IF observed THEN response ELSE start_response
            /\ IF success \/ ~obs_connected
               THEN /\ Len(recordings) < cap
                    /\ recordings' = Append(recordings,
                           NewRecording(IF Truthy(stream_id) THEN stream_id ELSE 1, 1))
                    /\ current_recording_info' =
                           [is_recording |-> TRUE, current_segment |-> 1,
                            segment_start_time |-> now, stream_id |-> stream_id,
                            recording_id |-> rid]
                    /\ streams' = IF Truthy(stream_id)
                                  THEN [streams EXCEPT ![stream_id].is_recording = TRUE]
                                  ELSE streams
                    /\ sessionSegs' = <<1>>
               ELSE /\ observed
                    /\ UNCHANGED <<recordings, current_recording_info, streams, sessionSegs>>
            /\ UNCHANGED <<obs_connected, removed, now, sw, extracting, extracted,
                      clips, clip_threads, triggerVars, uploads, threads, uw, accounts,
                      settings, scoring, monitor, extraction, stream_monitor>>

(* POST /api/obs/stop-recording *)
stop_obs_recording ==
    LET recording_id == current_recording_info.recording_id
        stream_id == current_recording_info.stream_id
        start == current_recording_info.segment_start_time
    IN  /\ recordings' =
               IF Truthy(recording_id) /\ recording_id \in 1..Len(recordings)
               THEN [recordings EXCEPT ![recording_id] =
                        [@ EXCEPT !.status = "completed", !.ended_at = TRUE,
                                  !.duration = IF start # None THEN now - start ELSE @]]
               ELSE recordings
        /\ streams' = IF Truthy(stream_id) /\ stream_id \in StreamIds
                      THEN [streams EXCEPT ![stream_id].is_recording = FALSE]
                      ELSE streams
        /\ current_recording_info' = EmptyInfo
        /\ sessionSegs' = <<>>
        /\ UNCHANGED <<obs_connected, removed, now, sw, extracting, extracted,
                      clips, clip_threads, triggerVars, uploadVars>>

----------------------------------------------------------------------------
(* segment_worker: one pass of the loop, in the steps between which another *)
(* thread can run (each step ends at a database commit or an OBS call).     *)

(* Lines 827-841: read the session, compute elapsed, load the Recording.   *)
(* The pass rotates when the guard chain holds and otherwise only sleeps.  *)
SegmentDue_early ==
    /\ current_recording_info.is_recording
    /\ current_recording_info.segment_start_time # None
    /\ now - current_recording_info.segment_start_time >= SEGMENT_DURATION - 1
    /\ Truthy(current_recording_info.recording_id)
    /\ current_recording_info.recording_id \in 1..Len(recordings)

SegmentDue ==
    /\ current_recording_info.is_recording
    /\ current_recording_info.segment_start_time # None
    /\ now - current_recording_info.segment_start_time >= SEGMENT_DURATION
    /\ Truthy(current_recording_info.recording_id)
    /\ current_recording_info.recording_id \in 1..Len(recordings)

segment_worker_check ==
    /\ sw.pc = "pass"
    /\ IF SegmentDue
       THEN sw' = [sw EXCEPT !.pc = "seal",
                             !.recording_id = current_recording_info.recording_id,
                             !.elapsed = now - current_recording_info.segment_start_time]
       ELSE sw' = [sw EXCEPT !.pc = "sleep"]
    /\ UNCHANGED <<current_recording_info, recordings, streams,
                      obs_connected, removed, now, extracting, extracted,
                      sessionSegs, clips, clip_threads, triggerVars,
                      uploadVars>>

(* Lines 843-850: seal the current Recording.  file_exists is the answer   *)
(* of os.path.exists for the Recording's file.                             *)
segment_worker_seal ==
    /\ sw.pc = "seal"
    /\ \E file_exists \in BOOLEAN :
          /\ file_exists => sw.recording_id \notin removed
          /\ recordings' = [recordings EXCEPT ![sw.recording_id] =
                 [@ EXCEPT !.status = "processing", !.ended_at = TRUE,
                           !.duration = sw.elapsed,
                           !.file_size = IF file_exists THEN FileSize(sw.recording_id) ELSE @]]
    /\ sw' = [sw EXCEPT !.pc = "alloc"]
    /\ UNCHANGED <<current_recording_info, streams, obs_connected, removed,
                      now, extracting, extracted, sessionSegs, clips,
                      clip_threads, triggerVars, uploadVars>>

(* Lines 852-867: allocate the next Recording from the session as it is now. *)
segment_worker_alloc ==
    /\ sw.pc = "alloc"
    /\ Len(recordings) < MaxRecordings
    /\ LET stream_id == current_recording_info.stream_id
           segment_num == current_recording_info.current_segment + 1
       IN  /\ recordings' = Append(recordings,
                  NewRecording(IF Truthy(stream_id) THEN stream_id ELSE 1, segment_num))
           /\ sw' = [sw EXCEPT !.pc = "update", !.stream_id = stream_id,
                               !.segment_num = segment_num,
                               !.new_id = Len(recordings) + 1]
           /\ sessionSegs' = IF sessionSegs # <<>> THEN Append(sessionSegs, segment_num)
                             ELSE sessionSegs
    /\ UNCHANGED <<current_recording_info, streams, obs_connected, removed,
                      now, extracting, extracted, clips, clip_threads,
                      triggerVars, uploadVars>>

(* Lines 869-881: point the session at the new Recording, reset the segment *)
(* clock and dispatch process_segment_clips for the sealed Recording.       *)
segment_worker_update ==
    /\ sw.pc = "update"
    /\ current_recording_info' =
           [current_recording_info EXCEPT !.current_segment = sw.segment_num,
                                          !.segment_start_time = now,
                                          !.recording_id = sw.new_id]
    /\ extracting' = extracting \cup {sw.recording_id}
    /\ sw' = [sw EXCEPT !.pc = "sleep"]
    /\ UNCHANGED <<recordings, streams, obs_connected, removed, now,
                      extracted, sessionSegs, clips, clip_threads,
                      triggerVars, uploadVars>>

(* The loop without its except branch: a pass that raised is the last one *)
segment_worker_wake_no_except ==
    /\ sw.pc = "sleep"
    /\ sw' = [pc |-> "pass", recording_id |-> None, elapsed |-> 0,
              segment_num |-> 0, stream_id |-> None, new_id |-> None]
    /\ UNCHANGED <<current_recording_info, recordings, streams,
                      obs_connected, removed, now, extracting, extracted,
                      sessionSegs, clips, clip_threads, triggerVars,
                      uploadVars>>

(* Lines 883 and 886: time.sleep(60), or the time.sleep(30) of the except *)
(* branch, returns and the loop starts its next pass.                     *)
segment_worker_wake ==
    /\ sw.pc \in {"sleep", "backoff"}
    /\ sw' = [pc |-> "pass", recording_id |-> None, elapsed |-> 0,
              segment_num |-> 0, stream_id |-> None, new_id |-> None]
    /\ UNCHANGED <<current_recording_info, recordings, streams,
                      obs_connected, removed, now, extracting, extracted,
                      sessionSegs, clips, clip_threads, triggerVars,
                      uploadVars>>

----------------------------------------------------------------------------
(* StreamMonitor (src/stream_monitor.py).  `from app import ...` in          *)
(* _auto_start_recording is taken to resolve to the running application      *)
(* module, so current_recording_info is the dict the workers read.           *)

(* recording.id read after session.add and before any flush or commit: the *)
(* primary key is not assigned yet.                                        *)
UnflushedId(rid) == None

(* What can go wrong for one stream in a pass: the live check raises       *)
(* (lines 110-112 and the checkers answer False), _auto_start_recording    *)
(* raises before it touches anything (the import of line 326), or its      *)
(* commit of line 356 raises.                                              *)
MonitorOutcomes == {"ok", "check_raises", "start_raises", "commit_raises"}

(* _auto_start_recording on the state st = [streams, db, recordings, info, *)
(* segs]: streams is the session's view of the Stream rows, db the rows as *)
(* committed.  The commit of line 356 stores every pending change; the     *)
(* rollback of line 363 drops every pending change of the session.         *)
auto_start_recording(st, s, outcome) ==
    LET info == [is_recording |-> TRUE, current_segment |-> 1,
                 segment_start_time |-> now, stream_id |-> s,
                 recording_id |-> UnflushedId(Len(st.recordings) + 1)]
        started == [st.streams EXCEPT ![s].is_recording = TRUE]
    IN  CASE outcome = "start_raises" -> [st EXCEPT !.streams = st.db]
          [] outcome = "commit_raises" ->
                [st EXCEPT !.streams = st.db, !.info = info, !.segs = <<>>]
          [] OTHER ->
                [streams |-> started, db |-> started,
                 recordings |-> Append(st.recordings, NewRecording(s, 1)),
                 info |-> info, segs |-> <<1>>]

(* The loop body with a stream that goes offline also losing its recording flag *)
monitor_stream_autostop(st, s, is_live, outcome) ==
    LET result == is_live /\ outcome # "check_raises"
    IN  IF result # st.streams[s].is_live
        THEN LET st1 == [st EXCEPT !.streams[s].is_live = result]
             IN  IF result /\ ~st.streams[s].is_recording /\ st.streams[s].auto_record
                 THEN auto_start_recording(st1, s, outcome)
                 ELSE [st1 EXCEPT !.streams[s].is_recording = FALSE]
        ELSE st

(* The loop body with the auto-start of line 64 taken whenever the stream *)
(* is live and not recording, changed status or not                       *)
monitor_stream_restart(st, s, is_live, outcome) ==
    LET result == is_live /\ outcome # "check_raises"
        st1 == IF result # st.streams[s].is_live
               THEN [st EXCEPT !.streams[s].is_live = result]
               ELSE st
    IN  IF result /\ ~st.streams[s].is_recording /\ st.streams[s].auto_record
        THEN auto_start_recording(st1, s, outcome)
        ELSE st1

(* The body of the loop over streams (lines 55-72) for stream s; is_live is *)
(* what the platform would answer, result what _check_stream_live returns.  *)
monitor_stream(st, s, is_live, outcome) ==
    LET result == is_live /\ outcome # "check_raises"
    IN  IF result # st.streams[s].is_live
        THEN LET st1 == [st EXCEPT !.streams[s].is_live = result]
             IN  IF result /\ ~st.streams[s].is_recording /\ st.streams[s].auto_record
                 THEN auto_start_recording(st1, s, outcome)
                 ELSE st1
        ELSE st

RECURSIVE monitor_streams(_, _, _, _)
monitor_streams(st, todo, live, outcome) ==
    IF todo = {} THEN st
    ELSE LET s == CHOOSE x \in todo : \A y \in todo : x <= y
         IN  monitor_streams(monitor_stream(st, s, live[s], outcome[s]), todo \ {s},
                             live, outcome)

(* One pass of _monitor_loop (lines 50-75): every auto_record stream is   *)
(* checked in id order, then the pass commits.                            *)
monitor_pass(outcomes, observed, cap) ==
    \E live \in [StreamIds -> BOOLEAN], outcome \in [StreamIds -> outcomes] :
        LET auto == {s \in StreamIds : streams[s].auto_record}
            st == monitor_streams([streams |-> streams, db |-> streams,
                                   recordings |-> recordings,
                                   info |-> current_recording_info,
                                   segs |-> sessionSegs], auto, live, outcome)
        IN  /\ \A s \in StreamIds \ auto : ~live[s] /\ outcome[s] = "ok"
            /\ Len(st.recordings) <= cap
            /\ streams' = st.streams
            /\ recordings' = st.recordings
            /\ current_recording_info' = st.info
            /\ sessionSegs' = st.segs
            /\ monitor' = IF observed
                          THEN [pass |-> 1 - monitor.pass, live |-> live, outcome |-> outcome]
                          ELSE monitor
            /\ UNCHANGED <<obs_connected, removed, now, sw, extracting, extracted,
                      clips, clip_threads, triggerVars, uploads, threads, uw,
                      accounts, settings, scoring, extraction, start_response>>

(* The monitor next to the start and stop requests, for any choice of the *)
(* streams' auto_record flags.                                             *)
InitMonitor ==
    /\ current_recording_info = EmptyInfo
    /\ recordings = <<>>
    /\ \E auto \in SUBSET StreamIds :
          streams = [s \in StreamIds |->
                        [is_live |-> FALSE, is_recording |-> FALSE,
                         auto_record |-> s \in auto]]
    /\ obs_connected = FALSE
    /\ removed = {}
    /\ now = 0
    /\ sw = [pc |-> "pass", recording_id |-> None, elapsed |-> 0,
             segment_num |-> 0, stream_id |-> None, new_id |-> None]
    /\ extracting = {}
    /\ extracted = {}
    /\ sessionSegs = <<>>
    /\ triggers = <<>>
    /\ events = <<>>
    /\ clips = <<>>
    /\ tw = [pc |-> "pass"]
    /\ clip_threads = {}
    /\ uploads = <<>>
    /\ threads = [i \in 1..MaxThreads |-> IdleThread]
    /\ uw = [pc |-> "pass", queue |-> <<>>, runner |-> IdleThread]
    /\ accounts = <<>>
    /\ scoring = NoCall
    /\ monitor = NoPass
    /\ extraction = NoExtraction
    /\ stream_monitor = StartedMonitor
    /\ start_response = NoResponse
    /\ settings = [auto_delete_recordings |-> TRUE, auto_post_tiktok |-> FALSE,
                   tiktok_access_token |-> FALSE]

MaxMonitorStarts == 2

NextMonitor ==
    \/ monitor_pass(MonitorOutcomes, TRUE, MaxMonitorStarts) /\ UNCHANGED stream_monitor
    \/ start_obs_recording(StreamIds, MaxMonitorStarts, FALSE)
    \/ stop_obs_recording

SpecMonitor == InitMonitor /\ [][NextMonitor]_vars

----------------------------------------------------------------------------
(* StreamMonitor.start, StreamMonitor.stop and the loop threads they leave *)

MaxLoops == 2

Loops == 1..Len(stream_monitor.loops)

(* StreamMonitor.start (lines 24-30), called by POST /api/stream-monitor/start *)
StreamMonitor_start ==
    /\ ~stream_monitor.running
    /\ Len(stream_monitor.loops) < MaxLoops
    /\ stream_monitor' = [running |-> TRUE, loops |-> Append(stream_monitor.loops, "while")]
    /\ UNCHANGED <<current_recording_info, recordings, streams, obs_connected, removed,
                   now, sw, extracting, extracted, sessionSegs, clips, clip_threads,
                   triggerVars, uploads, threads, uw, accounts, settings, scoring,
                   monitor, extraction, start_response>>

(* StreamMonitor.stop (lines 32-37): the flag is cleared and the join of *)
(* line 36 gives up after 5 seconds, whatever the loop thread is doing.  *)
StreamMonitor_stop ==
    /\ stream_monitor.running
    /\ stream_monitor' = [stream_monitor EXCEPT !.running = FALSE]
    /\ UNCHANGED <<current_recording_info, recordings, streams, obs_connected, removed,
                   now, sw, extracting, extracted, sessionSegs, clips, clip_threads,
                   triggerVars, uploads, threads, uw, accounts, settings, scoring,
                   monitor, extraction, start_response>>

(* Line 48: `while self.running`, tested by loop thread i *)
monitor_loop_while(i) ==
    /\ stream_monitor.loops[i] = "while"
    /\ stream_monitor' = [stream_monitor EXCEPT
                             !.loops[i] = IF stream_monitor.running THEN "pass" ELSE "done"]
    /\ UNCHANGED <<current_recording_info, recordings, streams, obs_connected, removed,
                   now, sw, extracting, extracted, sessionSegs, clips, clip_threads,
                   triggerVars, uploads, threads, uw, accounts, settings, scoring,
                   monitor, extraction, start_response>>

(* Lines 49-82: loop thread i runs its pass and goes to the sleep of line 85 *)
monitor_loop_pass(i, outcomes, cap) ==
    /\ stream_monitor.loops[i] = "pass"
    /\ monitor_pass(outcomes, FALSE, cap)
    /\ stream_monitor' = [stream_monitor EXCEPT !.loops[i] = "sleep"]

(* Line 85: time.sleep(check_interval) returns in loop thread i *)
monitor_loop_wake(i) ==
    /\ stream_monitor.loops[i] = "sleep"
    /\ stream_monitor' = [stream_monitor EXCEPT !.loops[i] = "while"]
    /\ UNCHANGED <<current_recording_info, recordings, streams, obs_connected, removed,
                   now, sw, extracting, extracted, sessionSegs, clips, clip_threads,
                   triggerVars, uploads, threads, uw, accounts, settings, scoring,
                   monitor, extraction, start_response>>

MaxLoopRecordings == 2

NextLoops ==
    \/ StreamMonitor_start
    \/ StreamMonitor_stop
    \/ \E i \in Loops : monitor_loop_while(i)
    \/ \E i \in Loops : monitor_loop_pass(i, {"ok"}, MaxLoopRecordings)
    \/ \E i \in Loops : monitor_loop_wake(i)
    \/ stop_obs_recording

SpecLoops == InitMonitor /\ [][NextLoops]_vars

----------------------------------------------------------------------------
(* Clip scoring and the Clip table.  Scores are in tenths (9.5 is 95).      *)
(* A trigger value is a number >= 0, None (absent), EmptyText ('') or       *)
(* NotANumber (text float() rejects, such as 'None').                       *)

NotANumber == -2
EmptyText == -3

(* str(x) as the callers apply it to a numeric column that may be NULL *)
Str(v) == IF v = None THEN NotANumber ELSE v

Min(a, b) == IF a <= b THEN a ELSE b
Max(a, b) == IF a >= b THEN a ELSE b

(* base_score with the top donation tier starting above 100 *)
base_score_strict(trigger_type, trigger_value) ==
    LET present == trigger_value # None /\ trigger_value # EmptyText
        raises == present /\ trigger_value = NotANumber
    IN  IF trigger_type = "donation"
        THEN IF raises THEN 50
             ELSE IF present /\ trigger_value > 100 THEN 95
             ELSE IF present /\ trigger_value >= 50 THEN 85
             ELSE IF present /\ trigger_value >= 10 THEN 70
             ELSE 60
        ELSE IF trigger_type = "chat_activity"
        THEN IF raises THEN 50
             ELSE IF present /\ trigger_value >= 200 THEN 90
             ELSE IF present /\ trigger_value >= 100 THEN 80
             ELSE 70
        ELSE IF trigger_type = "viewer_count" THEN 80
        ELSE IF trigger_type = "sentiment" THEN 75
        ELSE IF trigger_type = "audio_excitement" THEN 85
        ELSE 50

(* calculate_clip_score before the jitter: `trigger_value and float(...)`; *)
(* float() raising sends the whole chain to the except branch.             *)
base_score(trigger_type, trigger_value) ==
    LET present == trigger_value # None /\ trigger_value # EmptyText
        raises == present /\ trigger_value = NotANumber
    IN  IF trigger_type = "donation"
        THEN IF raises THEN 50
             ELSE IF present /\ trigger_value >= 100 THEN 95
             ELSE IF present /\ trigger_value >= 50 THEN 85
             ELSE IF present /\ trigger_value >= 10 THEN 70
             ELSE 60
        ELSE IF trigger_type = "chat_activity"
        THEN IF raises THEN 50
             ELSE IF present /\ trigger_value >= 200 THEN 90
             ELSE IF present /\ trigger_value >= 100 THEN 80
             ELSE 70
        ELSE IF trigger_type = "viewer_count" THEN 80
        ELSE IF trigger_type = "sentiment" THEN 75
        ELSE IF trigger_type = "audio_excitement" THEN 85
        ELSE 50

calculate_clip_score(trigger_type, trigger_value, jitter) ==
    Min(100, base_score(trigger_type, trigger_value) + jitter)

(* random.uniform(0, 0.5) in tenths: the draws the model takes *)
Jitters == {0, 5}

(* The trigger kinds a caller can pass: the six the function names and one *)
(* it does not.                                                            *)
ScoreKinds ==
    {"donation", "chat_activity", "viewer_count", "sentiment", "audio_excitement",
     "manual", "raid"}

(* Trigger values around every tier boundary, and the three that are not numbers *)
ScoreValues == {0, 9, 10, 49, 50, 99, 100, 199, 200, None, EmptyText, NotANumber}

(* random.uniform(0, 0.5) in tenths *)
ScoreJitters == 0..5

(* One call of calculate_clip_score (lines 520-551) on the arguments held in *)
(* scoring.                                                                  *)
calculate_clip_score_call ==
    /\ scoring.pc = "call"
    /\ \E jitter \in ScoreJitters :
          scoring' = [scoring EXCEPT
                         !.pc = "returned",
                         !.score = calculate_clip_score(scoring.trigger_type,
                                                        scoring.trigger_value, jitter)]
    /\ UNCHANGED <<current_recording_info, recordings, streams, obs_connected, removed,
                   now, sw, extracting, extracted, sessionSegs, triggerVars, clips,
                   clip_threads, uploads, threads, uw, accounts, settings, monitor,
                   extraction, stream_monitor,
                   start_response>>

(* The function on its own: any kind and any value as arguments *)
InitScore ==
    /\ current_recording_info = EmptyInfo
    /\ recordings = <<>>
    /\ streams = [s \in StreamIds |->
                     [is_live |-> FALSE, is_recording |-> FALSE, auto_record |-> s = 1]]
    /\ obs_connected = FALSE
    /\ removed = {}
    /\ now = 0
    /\ sw = [pc |-> "pass", recording_id |-> None, elapsed |-> 0,
             segment_num |-> 0, stream_id |-> None, new_id |-> None]
    /\ extracting = {}
    /\ extracted = {}
    /\ sessionSegs = <<>>
    /\ triggers = <<>>
    /\ events = <<>>
    /\ clips = <<>>
    /\ tw = [pc |-> "pass"]
    /\ clip_threads = {}
    /\ uploads = <<>>
    /\ threads = [i \in 1..MaxThreads |-> IdleThread]
    /\ uw = [pc |-> "pass", queue |-> <<>>, runner |-> IdleThread]
    /\ accounts = <<>>
    /\ settings = [auto_delete_recordings |-> TRUE, auto_post_tiktok |-> FALSE,
                   tiktok_access_token |-> FALSE]
    /\ \E trigger_type \in ScoreKinds, trigger_value \in ScoreValues :
          scoring = [pc |-> "call", trigger_type |-> trigger_type,
                     trigger_value |-> trigger_value, score |-> None]
    /\ monitor = NoPass
    /\ extraction = NoExtraction
    /\ stream_monitor = StartedMonitor
    /\ start_response = NoResponse

NextScore == calculate_clip_score_call

SpecScore == InitScore /\ [][NextScore]_vars

(* A Clip row.  Columns the constructor call does not pass take their     *)
(* column default (start_time, end_time 0).  trigger_id and event_id are  *)
(* history: the ClipTrigger / TriggerEvent the row was made for (0: none).*)
NewClip(recording_id, start_time, end_time, duration, trigger_type, trigger_value, score, status, trigger_id, event_id) ==
    [recording_id |-> recording_id, start_time |-> start_time, end_time |-> end_time,
     duration |-> duration, trigger_type |-> trigger_type,
     trigger_value |-> trigger_value, score |-> score, status |-> status,
     trigger_id |-> trigger_id, event_id |-> event_id]

Or(v, default) == IF Truthy(v) THEN v ELSE default

EnabledTriggerIds == {t \in 1..Len(triggers) : triggers[t].is_enabled}

----------------------------------------------------------------------------
(* Upload rows, upload_to_tiktok and the threads that run it *)

(* An Upload row (lines 770-780, 1420-1430).  video_url 0 is NULL; error *)
(* says whether error_message is set.                                    *)
NewUpload(clip_id, part_number, total_parts, tiktok_account_id) ==
    [clip_id |-> clip_id, status |-> "pending", progress |-> 0,
     part_number |-> part_number, total_parts |-> total_parts, video_url |-> 0,
     error |-> FALSE, tiktok_account_id |-> tiktok_account_id]

(* Lines 765-767 with one part too many for a whole number of minutes *)
total_parts_floor(duration) ==
    IF duration > 60 THEN (duration \div 60) + 1 ELSE 1

(* Lines 765-767 and 1414-1416: the parts of a clip file of that length *)
total_parts(duration) ==
    IF duration > 60
    THEN (duration \div 60) + (IF duration % 60 > 0 THEN 1 ELSE 0)
    ELSE 1

NewUploads(clip_id, n, tiktok_account_id) ==
    [i \in 1..n |-> NewUpload(clip_id, i, n, tiktok_account_id)]

StartedThread(upload_id) == [upload_id |-> upload_id, pc |-> "begin", progress |-> 0]

(* Lines 699-711: is there an access token for the job, on its account or *)
(* in the settings.                                                       *)
has_access_token(upload) ==
    \/ /\ upload.tiktok_account_id # None
       /\ upload.tiktok_account_id \in 1..Len(accounts)
       /\ accounts[upload.tiktok_account_id].access_token
    \/ settings.tiktok_access_token

(* range(0, 101, 10), line 722 *)
PROGRESS_STEP == 10

(* random.randint of line 730: the remote URLs the model draws *)
Urls == {1, 2}

(* upload_to_tiktok without the test of lines 710-714 *)
upload_to_tiktok_unchecked(ups, r, url) ==
    LET u == r.upload_id
    IN  IF r.pc = "begin"
        THEN [uploads |-> [ups EXCEPT ![u].status = "uploading", ![u].progress = 0],
              runner  |-> [r EXCEPT !.pc = "loop", !.progress = 0]]
        ELSE IF r.pc = "loop"
        THEN [uploads |-> [ups EXCEPT ![u].progress = r.progress],
              runner  |-> IF r.progress + PROGRESS_STEP > 100
                          THEN [r EXCEPT !.pc = "finish"]
                          ELSE [r EXCEPT !.progress = @ + PROGRESS_STEP]]
        ELSE [uploads |-> [ups EXCEPT ![u].status = "completed", ![u].progress = 100,
                                      ![u].video_url = url],
              runner  |-> IdleThread]

(* One committed step of upload_to_tiktok for runner r on the Upload table *)
(* ups: lines 694-719, one turn of the loop of lines 722-725, lines 727-733.*)
upload_to_tiktok(ups, r, url) ==
    LET u == r.upload_id
    IN  IF r.pc = "begin"
        THEN IF has_access_token(ups[u])
             THEN [uploads |-> [ups EXCEPT ![u].status = "uploading", ![u].progress = 0],
                   runner  |-> [r EXCEPT !.pc = "loop", !.progress = 0]]
             ELSE [uploads |-> [ups EXCEPT ![u].status = "failed", ![u].error = TRUE],
                   runner  |-> IdleThread]
        ELSE IF r.pc = "loop"
        THEN [uploads |-> [ups EXCEPT ![u].progress = r.progress],
              runner  |-> IF r.progress + PROGRESS_STEP > 100
                          THEN [r EXCEPT !.pc = "finish"]
                          ELSE [r EXCEPT !.progress = @ + PROGRESS_STEP]]
        ELSE [uploads |-> [ups EXCEPT ![u].status = "completed", ![u].progress = 100,
                                      ![u].video_url = url],
              runner  |-> IdleThread]

IdleSlots(ths) == {i \in 1..Len(ths) : ths[i].pc = "idle"}

(* threading.Thread(target=upload_to_tiktok, ...).start() for each job of *)
(* todo, in id order; full when the model has no slot left for a thread.  *)
RECURSIVE start_threads(_, _)
start_threads(st, todo) ==
    IF todo = {} THEN st
    ELSE LET u == CHOOSE x \in todo : \A y \in todo : x <= y
             idle == IdleSlots(st.threads)
         IN  IF idle = {} THEN [st EXCEPT !.full = TRUE]
             ELSE LET i == CHOOSE x \in idle : \A y \in idle : x <= y
                  IN  start_threads([st EXCEPT !.threads[i] = StartedThread(u)],
                                    todo \ {u})

ActiveAccounts == {a \in 1..Len(accounts) : accounts[a].is_active}

(* auto_queue_clip_for_upload without the test of lines 748-750 *)
auto_queue_clip_for_upload_always(st, cs, clip_id, duration) ==
    IF cs[clip_id].status # "ready" THEN st
    ELSE IF ActiveAccounts = {} THEN st
    ELSE LET account_id == CHOOSE a \in ActiveAccounts : \A b \in ActiveAccounts : a <= b
             ups == st.uploads \o NewUploads(clip_id, total_parts(duration), account_id)
             pending == {u \in 1..Len(ups) : /\ ups[u].clip_id = clip_id
                                             /\ ups[u].status = "pending"}
         IN  start_threads([st EXCEPT !.uploads = ups], pending)

(* auto_queue_clip_for_upload(clip_id) on st = [uploads, threads, full], *)
(* with cs the Clip table and duration the length of the clip file.      *)
auto_queue_clip_for_upload(st, cs, clip_id, duration) ==
    IF ~settings.auto_post_tiktok THEN st
    ELSE IF cs[clip_id].status # "ready" THEN st
    ELSE IF ActiveAccounts = {} THEN st
    ELSE LET account_id == CHOOSE a \in ActiveAccounts : \A b \in ActiveAccounts : a <= b
             ups == st.uploads \o NewUploads(clip_id, total_parts(duration), account_id)
             pending == {u \in 1..Len(ups) : /\ ups[u].clip_id = clip_id
                                             /\ ups[u].status = "pending"}
         IN  start_threads([st EXCEPT !.uploads = ups], pending)

(* Lines 658-659 *)
RECURSIVE auto_queue_clips(_, _, _)
auto_queue_clips(st, cs, todo) ==
    IF todo = {} THEN st
    ELSE LET c == CHOOSE x \in todo : \A y \in todo : x <= y
         IN  auto_queue_clips(auto_queue_clip_for_upload(st, cs, c, cs[c].duration),
                              cs, todo \ {c})

----------------------------------------------------------------------------
(* process_segment_clips(recording_id), run by the thread a rotation starts *)

(* Lines 617-623 for trigger t over Recording r: the clip window.  pick is *)
(* the random draw, clamped to [0, max_start].                             *)
segment_total_duration(t) ==
    Or(triggers[t].clip_duration, 30) + Or(triggers[t].pre_buffer, 5)
        + Or(triggers[t].post_buffer, 5)

segment_start_time(duration, total_duration, pick) ==
    LET max_start == IF Truthy(duration) THEN Max(0, duration - total_duration) ELSE 0
    IN  IF max_start > 0 THEN Min(pick, max_start) ELSE 0

(* What can raise inside the try of lines 611-653 for one trigger: nothing; *)
(* a statement up to the commit of line 639 (no Clip row is stored); a      *)
(* statement of lines 641-645, such as os.path.getsize on a clip file that  *)
(* is gone again (the row of line 639 stays `processing`); the              *)
(* commit of line 650 (the status is not stored, clips_created has counted).*)
SegmentErrors == {"none", "add_raises", "cut_raises", "store_raises"}

(* Lines 610-653: the loop over the enabled triggers in `todo`, appending *)
(* one Clip per trigger; cut_ok[t] is create_clip_from_video's answer and *)
(* error[t] what raises in the turn of trigger t.                         *)
RECURSIVE segment_clips(_, _, _, _, _, _, _)
segment_clips(cs, rid, todo, cut_ok, pick, jitter, error) ==
    IF todo = {} THEN cs
    ELSE LET t == CHOOSE x \in todo : \A y \in todo : x <= y
             total == segment_total_duration(t)
             start == segment_start_time(recordings[rid].duration, total, pick[t])
             clip == NewClip(rid, start, start + total, total, triggers[t].trigger_type,
                             None,
                             calculate_clip_score(triggers[t].trigger_type,
                                                  Str(triggers[t].threshold), jitter[t]),
                             IF error[t] # "none" THEN "processing"
                             ELSE IF cut_ok[t] THEN "ready" ELSE "failed", t, 0)
         IN  segment_clips(IF error[t] = "add_raises" THEN cs ELSE Append(cs, clip),
                           rid, todo \ {t}, cut_ok, pick, jitter, error)

MaxPick == 2
MaxClips == 4

(* Lines 661-682: the storage-reclaim decision for the Recording row r. *)
reclaim(r, clips_created, auto_delete_enabled, delete_ok) ==
    IF clips_created > 0 /\ auto_delete_enabled
    THEN IF delete_ok THEN [r EXCEPT !.status = "archived", !.file_size = 0]
         ELSE [r EXCEPT !.status = "completed"]
    ELSE [r EXCEPT !.status = "completed"]

(* process_segment_clips(recording_id), lines 595-685, for a dispatched   *)
(* Recording; errors are the outcomes a trigger's turn can have, and an   *)
(* observed run leaves its inputs in `extraction`.                        *)
process_segment_clips(cap, errors, observed) ==
    \E rid \in extracting, file_exists \in BOOLEAN :
        /\ file_exists => rid \notin removed
        /\ extracting' = extracting \ {rid}
        /\ extracted' = extracted \cup {rid}
        /\ IF ~file_exists
           THEN /\ UNCHANGED <<recordings, clips, removed>>
                /\ extraction' = IF observed THEN [NoExtraction EXCEPT !.rid = rid]
                                 ELSE extraction
           ELSE \E cut_ok \in [EnabledTriggerIds -> BOOLEAN],
                   pick \in [EnabledTriggerIds -> 0..MaxPick],
                   jitter \in [EnabledTriggerIds -> Jitters],
                   error \in [EnabledTriggerIds -> errors],
                   delete_ok \in BOOLEAN :
                    LET clips_created ==
                            Cardinality({t \in EnabledTriggerIds :
                                            cut_ok[t] /\ error[t] \in {"none", "store_raises"}})
                        deleting == clips_created > 0 /\ settings.auto_delete_recordings
                    IN  /\ Len(clips) + Cardinality(EnabledTriggerIds) <= MaxClips
                        /\ clips' = segment_clips(clips, rid, EnabledTriggerIds,
                                                  cut_ok, pick, jitter, error)
                        /\ recordings' = [recordings EXCEPT ![rid] =
                               reclaim(@, clips_created, settings.auto_delete_recordings,
                                       delete_ok)]
                        /\ removed' = IF deleting /\ delete_ok THEN removed \cup {rid}
                                      ELSE removed
                        /\ extraction' =
                               IF observed
                               THEN [rid |-> rid, file_exists |-> TRUE, cut_ok |-> cut_ok,
                                     error |-> error, delete_ok |-> delete_ok]
                               ELSE extraction
        /\ LET created_clip_ids == {c \in Len(clips)+1..Len(clips') :
                                        clips'[c].status = "ready"}
               st == auto_queue_clips([uploads |-> uploads, threads |-> threads,
                                       full |-> FALSE], clips', created_clip_ids)
           IN  /\ ~st.full
               /\ Len(st.uploads) <= cap
               /\ uploads' = st.uploads
               /\ threads' = st.threads
        /\ UNCHANGED <<current_recording_info, streams, obs_connected, now, sw,
                       sessionSegs, clip_threads, triggerVars, uw, accounts, settings, scoring, monitor,
                       stream_monitor, start_response>>

(* The streams the session-start requests name *)
ApiStreams == {2}

----------------------------------------------------------------------------
(* trigger_worker and the routes that create TriggerEvents and Clips *)

context_pre_buffer == 10
context_post_buffer == 5

MaxEvents == 2

Trigger(trigger_type, threshold, clip_duration, pre_buffer, post_buffer, is_enabled) ==
    [trigger_type |-> trigger_type, threshold |-> threshold,
     clip_duration |-> clip_duration, pre_buffer |-> pre_buffer,
     post_buffer |-> post_buffer, is_enabled |-> is_enabled]

(* ClipTrigger tables the /api/triggers routes can leave behind: the default *)
(* donation trigger, the same disabled, two enabled triggers of one kind, a  *)
(* trigger created without a threshold, one with clip_duration null, one     *)
(* created with pre_buffer 0 and post_buffer null.                           *)
TriggerTables ==
    { <<>>,
      <<Trigger("donation", 5, 30, 10, 5, TRUE)>>,
      <<Trigger("donation", 5, 30, 10, 5, FALSE)>>,
      <<Trigger("donation", 5, 30, 10, 5, TRUE), Trigger("donation", 100, 20, 0, None, TRUE)>>,
      <<Trigger("donation", None, 30, 10, 5, TRUE)>>,
      <<Trigger("chat_activity", 50, None, 15, 10, TRUE)>>,
      <<Trigger("donation", 100, 20, 0, None, TRUE)>> }

EventTypes == {"donation", "chat_activity"}
EventValues == {None, 5, 150}

(* POST /api/triggers/event *)
create_trigger_event(ids, types, values, cap) ==
    \E stream_id \in ids, trigger_type \in types, value \in values :
        /\ Len(events) < cap
        /\ events' = Append(events, [stream_id |-> stream_id, trigger_type |-> trigger_type,
                                     value |-> value, processed |-> FALSE, evaluated |-> 0])
        /\ UNCHANGED <<current_recording_info, recordings, streams, obs_connected,
                       removed, now, sw, extracting, extracted, sessionSegs, triggers,
                       tw, clips, clip_threads, uploadVars>>

(* Line 893: {t.trigger_type: t for t in enabled}: the last enabled trigger *)
(* of a kind wins; 0 when there is none.                                    *)
enabled_trigger(trigger_type) ==
    LET ts == {t \in EnabledTriggerIds : triggers[t].trigger_type = trigger_type}
    IN  IF ts = {} THEN 0 ELSE CHOOSE t \in ts : \A u \in ts : u <= t

(* Lines 899-902: the most recently started Recording of the stream that is *)
(* in status `recording`; 0 when there is none.                             *)
latest_recording(stream_id) ==
    LET rs == {r \in 1..Len(recordings) : /\ recordings[r].stream_id = stream_id
                                           /\ recordings[r].status = "recording"}
    IN  IF rs = {} THEN 0 ELSE CHOOSE r \in rs : \A q \in rs : q <= r

(* Line 928, and the same with the flag left unset *)
mark_processed_forgets(ev) == [ev EXCEPT !.evaluated = @ + 1]

mark_processed(ev) == [ev EXCEPT !.processed = TRUE, !.evaluated = @ + 1]

(* Lines 905-907 *)
event_total_duration(t) ==
    Or(triggers[t].pre_buffer, context_pre_buffer) + triggers[t].clip_duration
        + Or(triggers[t].post_buffer, context_post_buffer)

(* Lines 896-928 for event e on st = [raised, events, clips]: comparing with *)
(* a null value or threshold, or adding a null clip_duration, raises.        *)
trigger_event(st, e, jitter) ==
    LET ev == st.events[e]
        t == enabled_trigger(ev.trigger_type)
        rec == latest_recording(ev.stream_id)
        done == [st EXCEPT !.events[e] = mark_processed(ev)]
    IN  IF st.raised THEN st
        ELSE IF t = 0 THEN done
        ELSE IF ev.value = None \/ triggers[t].threshold = None
             THEN [st EXCEPT !.raised = TRUE]
        ELSE IF ev.value >= triggers[t].threshold /\ rec # 0
             THEN IF triggers[t].clip_duration = None
                  THEN [st EXCEPT !.raised = TRUE]
                  ELSE [done EXCEPT !.clips = Append(@,
                           NewClip(rec, 0, 0, event_total_duration(t), ev.trigger_type,
                                   Str(ev.value),
                                   calculate_clip_score(ev.trigger_type, Str(ev.value), jitter),
                                   "pending", t, e))]
        ELSE done

RECURSIVE trigger_events(_, _, _)
trigger_events(st, todo, jitter) ==
    IF todo = {} THEN st
    ELSE LET e == CHOOSE x \in todo : \A y \in todo : x <= y
         IN  trigger_events(trigger_event(st, e, jitter[e]), todo \ {e}, jitter)

(* One pass of trigger_worker (lines 891-930).  A pass that raises leaves  *)
(* the with-block before the commit: the session is discarded with the app *)
(* context and nothing of the pass is stored; the worker sleeps 10 s.      *)
trigger_worker_pass ==
    /\ tw.pc = "pass"
    /\ \E jitter \in [1..Len(events) -> Jitters] :
          LET unprocessed == {e \in 1..Len(events) : ~events[e].processed}
              st == trigger_events([raised |-> FALSE, events |-> events, clips |-> clips],
                                   unprocessed, jitter)
          IN  IF st.raised
              THEN /\ tw' = [tw EXCEPT !.pc = "backoff"]
                   /\ UNCHANGED <<events, clips>>
              ELSE /\ Len(st.clips) <= MaxClips
                   /\ tw' = [tw EXCEPT !.pc = "sleep"]
                   /\ events' = st.events
                   /\ clips' = st.clips
    /\ UNCHANGED <<current_recording_info, recordings, streams, obs_connected, removed,
                   now, sw, extracting, extracted, sessionSegs, triggers, clip_threads,
                   uploadVars>>

(* Lines 932 and 935: the sleep ends and the loop starts its next pass. *)
trigger_worker_wake ==
    /\ tw.pc \in {"sleep", "backoff"}
    /\ tw' = [tw EXCEPT !.pc = "pass"]
    /\ UNCHANGED <<current_recording_info, recordings, streams, obs_connected, removed,
                   now, sw, extracting, extracted, sessionSegs, triggers, events, clips,
                   clip_threads, uploadVars>>

(* POST /api/recordings/<id>/generate-clips: generate_clips_from_recording. *)
(* One Clip per enabled trigger, committed together; a null clip_duration   *)
(* raises at line 572 and the request stores nothing.                       *)
RECURSIVE generated_clips(_, _, _, _)
generated_clips(cs, rid, todo, jitter) ==
    IF todo = {} THEN cs
    ELSE LET t == CHOOSE x \in todo : \A y \in todo : x <= y
             clip == NewClip(rid, 0, 0, triggers[t].clip_duration, triggers[t].trigger_type,
                             None,
                             calculate_clip_score(triggers[t].trigger_type,
                                                  Str(triggers[t].threshold), jitter[t]),
                             "processing", t, 0)
         IN  generated_clips(Append(cs, clip), rid, todo \ {t}, jitter)

generate_clips_for_recording(cap) ==
    \E rid \in 1..Len(recordings), jitter \in [EnabledTriggerIds -> Jitters] :
        /\ rid \notin removed
        /\ \A t \in EnabledTriggerIds : triggers[t].clip_duration # None
        /\ Len(clips) + Cardinality(EnabledTriggerIds) <= cap
        /\ clips' = generated_clips(clips, rid, EnabledTriggerIds, jitter)
        /\ UNCHANGED <<current_recording_info, recordings, streams, obs_connected,
                       removed, now, sw, extracting, extracted, sessionSegs, clip_threads,
                       triggerVars, uploadVars>>

(* POST /api/clips: a manual Clip and the thread that extracts it *)
ManualStarts == {0, 1}
ManualDurations == {30}

create_clip(cap) ==
    \E rid \in 1..Len(recordings), start_time \in ManualStarts,
       duration \in ManualDurations, jitter \in Jitters :
        /\ Len(clips) < cap
        /\ clips' = Append(clips,
               NewClip(rid, start_time, start_time + duration, duration, "manual", None,
                       calculate_clip_score("manual", None, jitter), "processing", 0, 0))
        /\ clip_threads' = clip_threads \cup {Len(clips) + 1}
        /\ UNCHANGED <<current_recording_info, recordings, streams, obs_connected,
                       removed, now, sw, extracting, extracted, sessionSegs, triggerVars,
                       uploadVars>>

(* process_clip (lines 1321-1338): file_exists and cut_ok are the answers of *)
(* os.path.exists and create_clip_from_video.                                *)
process_clip ==
    \E c \in clip_threads, file_exists \in BOOLEAN, cut_ok \in BOOLEAN :
        /\ file_exists => clips[c].recording_id \notin removed
        /\ clips' = [clips EXCEPT ![c].status =
                        IF file_exists /\ cut_ok THEN "ready" ELSE "failed"]
        /\ clip_threads' = clip_threads \ {c}
        /\ UNCHANGED <<current_recording_info, recordings, streams, obs_connected,
                       removed, now, sw, extracting, extracted, sessionSegs, triggerVars,
                       uploadVars>>

InitTrigger ==
    /\ current_recording_info = EmptyInfo
    /\ recordings = <<>>
    /\ streams = [s \in StreamIds |->
                     [is_live |-> FALSE, is_recording |-> FALSE, auto_record |-> s = 1]]
    /\ obs_connected = FALSE
    /\ removed = {}
    /\ now = 0
    /\ sw = [pc |-> "pass", recording_id |-> None, elapsed |-> 0,
             segment_num |-> 0, stream_id |-> None, new_id |-> None]
    /\ extracting = {}
    /\ extracted = {}
    /\ sessionSegs = <<>>
    /\ triggers \in TriggerTables
    /\ events = <<>>
    /\ clips = <<>>
    /\ tw = [pc |-> "pass"]
    /\ clip_threads = {}
    /\ uploads = <<>>
    /\ threads = [i \in 1..MaxThreads |-> IdleThread]
    /\ uw = [pc |-> "pass", queue |-> <<>>, runner |-> IdleThread]
    /\ accounts = <<>>
    /\ scoring = NoCall
    /\ monitor = NoPass
    /\ extraction = NoExtraction
    /\ stream_monitor = StartedMonitor
    /\ start_response = NoResponse
    /\ settings = [auto_delete_recordings |-> TRUE, auto_post_tiktok |-> FALSE,
                   tiktok_access_token |-> FALSE]

MaxSessions == 2

NextTrigger ==
    \/ start_obs_recording(ApiStreams, MaxSessions, FALSE)
    \/ stop_obs_recording
    \/ create_trigger_event(ApiStreams, EventTypes, EventValues, MaxEvents)
    \/ trigger_worker_pass
    \/ trigger_worker_wake

SpecTrigger == InitTrigger /\ [][NextTrigger]_vars

MaxRequestClips == 2

(* The clip-creating paths side by side: the event path with the default *)
(* donation trigger, the generate-clips request and the manual request.  *)
InitClips ==
    /\ InitTrigger
    /\ triggers = <<Trigger("donation", 5, 30, 10, 5, TRUE)>>

NextClips ==
    \/ start_obs_recording(ApiStreams, 1, FALSE)
    \/ stop_obs_recording
    \/ create_trigger_event(ApiStreams, {"donation"}, {5, 150}, 1)
    \/ trigger_worker_pass
    \/ trigger_worker_wake
    \/ generate_clips_for_recording(MaxRequestClips)
    \/ create_clip(MaxRequestClips)
    \/ process_clip

SpecClips == InitClips /\ [][NextClips]_vars

----------------------------------------------------------------------------
(* The upload routes, the upload threads and upload_worker *)

(* POST /api/uploads: split is `platform == 'tiktok' and auto_split` of    *)
(* the request, file_exists is os.path.exists(clip.filepath): the file of *)
(* a `ready` clip exists, that of another clip may or may not; the clip   *)
(* file is as long as the Clip row says.                                  *)
create_upload(cap) ==
    \E clip_id \in 1..Len(clips), account_id \in {None} \cup (1..Len(accounts)),
       split \in BOOLEAN, file_exists \in BOOLEAN :
        LET n == IF split /\ file_exists THEN total_parts(clips[clip_id].duration) ELSE 1
        IN  /\ clips[clip_id].status = "ready" => file_exists
            /\ Len(uploads) + n <= cap
            /\ uploads' = uploads \o NewUploads(clip_id, n, account_id)
            /\ UNCHANGED <<current_recording_info, recordings, streams, obs_connected,
                           removed, now, sw, extracting, extracted, sessionSegs, clips,
                           clip_threads, triggerVars, threads, uw, accounts, settings, scoring, monitor, extraction, stream_monitor,
                   start_response>>

(* POST /api/uploads/<id>/start: a thread for the job, whatever its status *)
start_upload ==
    \E upload_id \in 1..Len(uploads) :
        /\ IdleSlots(threads) # {}
        /\ threads' = start_threads([threads |-> threads, full |-> FALSE],
                                    {upload_id}).threads
        /\ UNCHANGED <<current_recording_info, recordings, streams, obs_connected,
                       removed, now, sw, extracting, extracted, sessionSegs, clips,
                       clip_threads, triggerVars, uploads, uw, accounts, settings, scoring, monitor, extraction, stream_monitor,
                   start_response>>

(* A thread running upload_to_tiktok commits its next step. *)
upload_thread_step ==
    \E i \in 1..Len(threads), url \in Urls :
        /\ threads[i].pc # "idle"
        /\ LET st == upload_to_tiktok(uploads, threads[i], url)
           IN  /\ uploads' = st.uploads
               /\ threads' = [threads EXCEPT ![i] = st.runner]
        /\ UNCHANGED <<current_recording_info, recordings, streams, obs_connected,
                       removed, now, sw, extracting, extracted, sessionSegs, clips,
                       clip_threads, triggerVars, uw, accounts, settings, scoring, monitor, extraction, stream_monitor,
                   start_response>>

RECURSIVE Ascending(_)
Ascending(ids) ==
    IF ids = {} THEN <<>>
    ELSE LET u == CHOOSE x \in ids : \A y \in ids : x <= y
         IN  <<u>> \o Ascending(ids \ {u})

(* upload_worker, line 810: the jobs in status `uploading` when the pass starts *)
upload_worker_pass ==
    /\ uw.pc = "pass"
    /\ uw' = [uw EXCEPT !.pc = "run",
                        !.queue = Ascending({u \in 1..Len(uploads) :
                                                uploads[u].status = "uploading"})]
    /\ UNCHANGED <<current_recording_info, recordings, streams, obs_connected, removed,
                   now, sw, extracting, extracted, sessionSegs, clips, clip_threads,
                   triggerVars, uploads, threads, accounts, settings, scoring, monitor, extraction, stream_monitor,
                   start_response>>

(* Lines 812-814: the next job of the pass; upload_to_tiktok is called in *)
(* the worker itself when the clip file exists.  Line 816 when none is    *)
(* left.                                                                  *)
upload_worker_next ==
    /\ uw.pc = "run"
    /\ uw.runner.pc = "idle"
    /\ IF uw.queue = <<>>
       THEN uw' = [uw EXCEPT !.pc = "sleep"]
       ELSE \E file_exists \in BOOLEAN :
               /\ clips[uploads[Head(uw.queue)].clip_id].status = "ready" => file_exists
               /\ uw' = [uw EXCEPT !.queue = Tail(@),
                                !.runner = IF file_exists THEN StartedThread(Head(uw.queue))
                                           ELSE IdleThread]
    /\ UNCHANGED <<current_recording_info, recordings, streams, obs_connected, removed,
                   now, sw, extracting, extracted, sessionSegs, clips, clip_threads,
                   triggerVars, uploads, threads, accounts, settings, scoring, monitor, extraction, stream_monitor,
                   start_response>>

(* Line 814: the worker's own call of upload_to_tiktok commits its next step *)
upload_worker_step ==
    /\ uw.pc = "run"
    /\ uw.runner.pc # "idle"
    /\ \E url \in Urls :
          LET st == upload_to_tiktok(uploads, uw.runner, url)
          IN  /\ uploads' = st.uploads
              /\ uw' = [uw EXCEPT !.runner = st.runner]
    /\ UNCHANGED <<current_recording_info, recordings, streams, obs_connected, removed,
                   now, sw, extracting, extracted, sessionSegs, clips, clip_threads,
                   triggerVars, threads, accounts, settings, scoring, monitor, extraction, stream_monitor,
                   start_response>>

(* Lines 816 and 819: time.sleep(5), or the time.sleep(10) of the except *)
(* branch, ends                                                          *)
upload_worker_wake ==
    /\ uw.pc \in {"sleep", "backoff"}
    /\ uw' = [uw EXCEPT !.pc = "pass"]
    /\ UNCHANGED <<current_recording_info, recordings, streams, obs_connected, removed,
                   now, sw, extracting, extracted, sessionSegs, clips, clip_threads,
                   triggerVars, uploads, threads, accounts, settings, scoring, monitor, extraction, stream_monitor,
                   start_response>>

(* The process is stopped and started again: the tables stay, the daemon  *)
(* threads and the module globals (lines 199-228) start afresh.           *)
restart ==
    /\ current_recording_info' = EmptyInfo
    /\ sw' = [pc |-> "pass", recording_id |-> None, elapsed |-> 0,
              segment_num |-> 0, stream_id |-> None, new_id |-> None]
    /\ tw' = [pc |-> "pass"]
    /\ uw' = [pc |-> "pass", queue |-> <<>>, runner |-> IdleThread]
    /\ threads' = [i \in 1..Len(threads) |-> IdleThread]
    /\ extracting' = {}
    /\ clip_threads' = {}
    /\ UNCHANGED <<recordings, streams, obs_connected, removed, now, extracted,
                   sessionSegs, triggers, events, clips, uploads, accounts, settings, scoring, monitor, extraction, stream_monitor,
                   start_response>>

Account(is_active, access_token) == [is_active |-> is_active, access_token |-> access_token]

(* TikTokAccount tables: none, an active account with a token, one without *)
AccountTables == {<<>>, <<Account(TRUE, TRUE)>>, <<Account(TRUE, FALSE)>>}

(* The state a session for stream 2 is in when its first rotation has just *)
(* sealed Recording 1 and dispatched its extraction (segment_worker_update, *)
(* now = SEGMENT_DURATION), with ClipTrigger table trs, room for `slots`    *)
(* upload threads, any of the account tables, any value of the two TikTok   *)
(* settings and auto_delete_recordings one of auto_delete.  The sealed file *)
(* had one of `sizes` (lines 846-847): 0 when OBS wrote no file.            *)
AfterRotation(trs, slots, auto_delete, sizes) ==
    /\ current_recording_info = [is_recording |-> TRUE, current_segment |-> 2,
                                 segment_start_time |-> SEGMENT_DURATION,
                                 stream_id |-> 2, recording_id |-> 2]
    /\ \E file_size \in sizes :
          recordings = <<[NewRecording(2, 1) EXCEPT !.status = "processing",
                                                    !.duration = SEGMENT_DURATION,
                                                    !.file_size = file_size,
                                                    !.ended_at = TRUE],
                         NewRecording(2, 2)>>
    /\ streams = [s \in StreamIds |->
                     [is_live |-> FALSE, is_recording |-> s = 2, auto_record |-> s = 1]]
    /\ obs_connected = FALSE
    /\ removed = {}
    /\ now = SEGMENT_DURATION
    /\ sw = [pc |-> "sleep", recording_id |-> 1, elapsed |-> SEGMENT_DURATION,
             segment_num |-> 2, stream_id |-> 2, new_id |-> 2]
    /\ extracting = {1}
    /\ extracted = {}
    /\ sessionSegs = <<1, 2>>
    /\ triggers = trs
    /\ events = <<>>
    /\ clips = <<>>
    /\ tw = [pc |-> "pass"]
    /\ clip_threads = {}
    /\ uploads = <<>>
    /\ threads = [i \in 1..slots |-> IdleThread]
    /\ uw = [pc |-> "pass", queue |-> <<>>, runner |-> IdleThread]
    /\ accounts \in AccountTables
    /\ scoring = NoCall
    /\ monitor = NoPass
    /\ extraction = NoExtraction
    /\ stream_monitor = StartedMonitor
    /\ start_response = NoResponse
    /\ \E auto_delete_recordings \in auto_delete, auto_post_tiktok \in BOOLEAN,
          tiktok_access_token \in BOOLEAN :
          settings = [auto_delete_recordings |-> auto_delete_recordings,
                      auto_post_tiktok |-> auto_post_tiktok,
                      tiktok_access_token |-> tiktok_access_token]

InitUpload ==
    AfterRotation(<<Trigger("donation", 5, 30, 10, 5, TRUE)>>, MaxThreads, {TRUE},
                  {FileSize(1)})

NextUpload ==
    \/ process_segment_clips(MaxUploads, {"none"}, FALSE)
    \/ create_upload(MaxUploads)
    \/ start_upload
    \/ upload_thread_step
    \/ upload_worker_pass
    \/ upload_worker_next
    \/ upload_worker_step
    \/ upload_worker_wake
    \/ restart

SpecUpload == InitUpload /\ [][NextUpload]_vars

----------------------------------------------------------------------------
(* The three worker loops with passes that raise *)

(* segment_worker, lines 884-886: a commit of the rotation (line 848 or  *)
(* 866) raises; the pass is left with nothing more stored and the worker *)
(* sleeps 30 s.                                                          *)
segment_worker_raise ==
    /\ sw.pc \in {"seal", "alloc"}
    /\ sw' = [sw EXCEPT !.pc = "backoff"]
    /\ UNCHANGED <<current_recording_info, recordings, streams, obs_connected, removed,
                   now, extracting, extracted, sessionSegs, clips, clip_threads,
                   triggerVars, uploadVars>>

(* upload_worker, lines 817-819: the query of line 810 or the load of     *)
(* upload.clip (line 813) raises; the rest of the pass is dropped and the *)
(* worker sleeps 10 s.                                                    *)
upload_worker_raise ==
    /\ \/ uw.pc = "pass"
       \/ uw.pc = "run" /\ uw.runner.pc = "idle" /\ uw.queue # <<>>
    /\ uw' = [pc |-> "backoff", queue |-> <<>>, runner |-> IdleThread]
    /\ UNCHANGED <<current_recording_info, recordings, streams, obs_connected, removed,
                   now, sw, extracting, extracted, sessionSegs, clips, clip_threads,
                   triggerVars, uploads, threads, accounts, settings, scoring, monitor, extraction, stream_monitor,
                   start_response>>

SegmentWorker ==
    \/ segment_worker_check
    \/ segment_worker_seal
    \/ segment_worker_alloc
    \/ segment_worker_update
    \/ segment_worker_raise
    \/ segment_worker_wake

TriggerWorker ==
    \/ trigger_worker_pass
    \/ trigger_worker_wake

UploadWorker ==
    \/ upload_worker_pass
    \/ upload_worker_next
    \/ upload_worker_step
    \/ upload_worker_raise
    \/ upload_worker_wake

MaxWorkerEvents == 1

(* The state of a process that was started again while Upload 1 (of a    *)
(* manual Clip of Recording 1, since ended) was `uploading`, and in which *)
(* a session for stream 2 was started through the API one segment       *)
(* duration ago: the default donation trigger, no event yet, the global  *)
(* TikTok token set or not, the clip `failed` (its file may be there or  *)
(* not).                                                                 *)
InitWorkers ==
    /\ current_recording_info = [is_recording |-> TRUE, current_segment |-> 1,
                                 segment_start_time |-> 0, stream_id |-> 2,
                                 recording_id |-> 2]
    /\ recordings = <<[NewRecording(2, 1) EXCEPT !.status = "completed",
                                                 !.ended_at = TRUE],
                      NewRecording(2, 1)>>
    /\ streams = [s \in StreamIds |->
                     [is_live |-> FALSE, is_recording |-> s = 2, auto_record |-> s = 1]]
    /\ obs_connected = FALSE
    /\ removed = {}
    /\ now = SEGMENT_DURATION
    /\ sw = [pc |-> "pass", recording_id |-> None, elapsed |-> 0,
             segment_num |-> 0, stream_id |-> None, new_id |-> None]
    /\ extracting = {}
    /\ extracted = {}
    /\ sessionSegs = <<1>>
    /\ triggers = <<Trigger("donation", 5, 30, 10, 5, TRUE)>>
    /\ events = <<>>
    /\ clips = <<NewClip(1, 0, 30, 30, "manual", None, 50, "failed", 0, 0)>>
    /\ tw = [pc |-> "pass"]
    /\ clip_threads = {}
    /\ uploads = <<[NewUpload(1, 1, 1, None) EXCEPT !.status = "uploading"]>>
    /\ threads = [i \in 1..MaxUploads |-> IdleThread]
    /\ uw = [pc |-> "pass", queue |-> <<>>, runner |-> IdleThread]
    /\ accounts = <<>>
    /\ scoring = NoCall
    /\ monitor = NoPass
    /\ extraction = NoExtraction
    /\ stream_monitor = StartedMonitor
    /\ start_response = NoResponse
    /\ \E tiktok_access_token \in BOOLEAN :
          settings = [auto_delete_recordings |-> TRUE, auto_post_tiktok |-> FALSE,
                      tiktok_access_token |-> tiktok_access_token]

NextWorkers ==
    \/ create_trigger_event(ApiStreams, {"donation"}, {None, 150}, MaxWorkerEvents)
    \/ SegmentWorker
    \/ TriggerWorker
    \/ UploadWorker

(* Each worker is a thread of its own (lines 940-953): a worker that can *)
(* take a step takes one.                                                *)
SpecWorkers ==
    /\ InitWorkers
    /\ [][NextWorkers]_vars
    /\ WF_vars(SegmentWorker)
    /\ WF_vars(TriggerWorker)
    /\ WF_vars(UploadWorker)

----------------------------------------------------------------------------
(* The upload routine with and without a credential: one thread at a time *)

InitCredential ==
    AfterRotation(<<Trigger("donation", 5, 30, 10, 5, TRUE)>>, MaxUploads, {TRUE},
                  {FileSize(1)})

SpecCredential == InitCredential /\ [][NextUpload]_vars

----------------------------------------------------------------------------
(* The operations that create Upload rows, for clips of several lengths *)

MaxQueueUploads == 3

(* clip_duration of the one enabled trigger: with pre_buffer 10 and *)
(* post_buffer 5 the clips are 45, 60, 120 and 125 seconds long.    *)
QueueClipDurations == {30, 45, 105, 110}

InitQueue ==
    \E clip_duration \in QueueClipDurations :
        AfterRotation(<<Trigger("donation", 5, clip_duration, 10, 5, TRUE)>>,
                      MaxQueueUploads, {TRUE}, {FileSize(1)})

NextQueue ==
    \/ process_segment_clips(MaxQueueUploads, {"none"}, FALSE)
    \/ create_upload(MaxQueueUploads)

SpecQueue == InitQueue /\ [][NextQueue]_vars

----------------------------------------------------------------------------
(* The extraction of a sealed segment and the generate-clips request *)

(* ClipTrigger tables: one enabled trigger, two enabled triggers, an *)
(* enabled and a disabled one.                                       *)
ExtractTriggerTables ==
    { <<Trigger("donation", 5, 30, 10, 5, TRUE)>>,
      <<Trigger("donation", 5, 30, 10, 5, TRUE), Trigger("chat_activity", 50, 60, 15, 10, TRUE)>>,
      <<Trigger("donation", 5, 30, 10, 5, TRUE), Trigger("chat_activity", 50, 60, 15, 10, FALSE)>> }

InitExtract ==
    \E trs \in ExtractTriggerTables :
        AfterRotation(trs, MaxQueueUploads, BOOLEAN, {0, FileSize(1)})

NextExtract ==
    \/ process_segment_clips(MaxQueueUploads, {"none"}, FALSE)
    \/ generate_clips_for_recording(MaxClips)

SpecExtract == InitExtract /\ [][NextExtract]_vars

----------------------------------------------------------------------------
(* One extraction in which any turn of the loop over the triggers can raise *)

InitBatch ==
    \E trs \in ExtractTriggerTables :
        AfterRotation(trs, MaxQueueUploads, BOOLEAN, {0, FileSize(1)})

NextBatch == process_segment_clips(MaxQueueUploads, SegmentErrors, TRUE)

SpecBatch == InitBatch /\ [][NextBatch]_vars

----------------------------------------------------------------------------
(* The session-start request with OBS connected or not, its answer observed *)

MaxStartRecordings == 2

(* The stream_id of a start request: a Stream's id, or none in the body *)
StartStreamIds == ApiStreams \cup {None}

NextStart ==
    \/ connect_obs
    \/ start_obs_recording(StartStreamIds, MaxStartRecordings, TRUE)
    \/ stop_obs_recording

SpecStart == Init /\ [][NextStart]_vars

----------------------------------------------------------------------------
(* The session specification *)


Next ==
    \/ Tick
    \/ start_obs_recording(ApiStreams, MaxRecordings, FALSE)
    \/ stop_obs_recording
    \/ segment_worker_check
    \/ segment_worker_seal
    \/ segment_worker_alloc
    \/ segment_worker_update
    \/ segment_worker_wake
    \/ monitor_pass({"ok"}, FALSE, MaxRecordings) /\ UNCHANGED stream_monitor
    \/ process_segment_clips(MaxUploads, {"none"}, FALSE)

Spec == Init /\ [][Next]_vars

----------------------------------------------------------------------------
(* The session record written key by key.  Lines 869-871 are three       *)
(* assignments to keys of the dict that the request handlers and the     *)
(* monitor read and replace with no lock held; another thread can run    *)
(* between any two of them.  segment_worker_update above is the three of *)
(* them and the dispatch in one step.                                    *)

(* Line 869 *)
segment_worker_set_segment ==
    /\ sw.pc = "update"
    /\ current_recording_info' =
           [current_recording_info EXCEPT !.current_segment = sw.segment_num]
    /\ sw' = [sw EXCEPT !.pc = "set_start"]
    /\ UNCHANGED <<recordings, streams, obs_connected, removed, now, extracting,
                      extracted, sessionSegs, clips, clip_threads,
                      triggerVars, uploadVars>>

(* Line 870 *)
segment_worker_set_start ==
    /\ sw.pc = "set_start"
    /\ current_recording_info' =
           [current_recording_info EXCEPT !.segment_start_time = now]
    /\ sw' = [sw EXCEPT !.pc = "set_id"]
    /\ UNCHANGED <<recordings, streams, obs_connected, removed, now, extracting,
                      extracted, sessionSegs, clips, clip_threads,
                      triggerVars, uploadVars>>

(* The extraction thread started with the session still naming the sealed *)
(* Recording                                                              *)
segment_worker_set_id_stale ==
    /\ sw.pc = "set_id"
    /\ extracting' = extracting \cup {sw.recording_id}
    /\ sw' = [sw EXCEPT !.pc = "sleep"]
    /\ UNCHANGED <<current_recording_info, recordings, streams, obs_connected,
                      removed, now, extracted, sessionSegs, clips, clip_threads,
                      triggerVars, uploadVars>>

(* Lines 871-881: the last key, then the extraction thread is started *)
segment_worker_set_id ==
    /\ sw.pc = "set_id"
    /\ current_recording_info' =
           [current_recording_info EXCEPT !.recording_id = sw.new_id]
    /\ extracting' = extracting \cup {sw.recording_id}
    /\ sw' = [sw EXCEPT !.pc = "sleep"]
    /\ UNCHANGED <<recordings, streams, obs_connected, removed, now,
                      extracted, sessionSegs, clips, clip_threads,
                      triggerVars, uploadVars>>

NextSession ==
    \/ Tick
    \/ start_obs_recording(ApiStreams, MaxRecordings, FALSE)
    \/ stop_obs_recording
    \/ segment_worker_check
    \/ segment_worker_seal
    \/ segment_worker_alloc
    \/ segment_worker_set_segment
    \/ segment_worker_set_start
    \/ segment_worker_set_id
    \/ segment_worker_wake
    \/ process_segment_clips(MaxUploads, {"none"}, FALSE)

SpecSession == Init /\ [][NextSession]_vars

----------------------------------------------------------------------------
(* Claims about the session and the Recording table, under Spec *)

RecordingIds == 1..Len(recordings)

(* C1: the Recordings created since the latest session start (by that start *)
(* and by the rotations that followed it) carry segment numbers 1, 2, 3, ...*)
(* in creation order, with no gap and no repeat.                            *)
C1_SegmentsContiguous ==
    \A i \in 1..Len(sessionSegs) : sessionSegs[i] = i

(* C2: at most one Recording per channel has status `recording`, and exactly *)
(* one while the session is active for that channel.                         *)
RecordingNow(s) ==
    {r \in RecordingIds : recordings[r].stream_id = s /\ recordings[r].status = "recording"}

C2_OneRecordingPerChannel ==
    \A s \in StreamIds :
        /\ Cardinality(RecordingNow(s)) <= 1
        /\ (current_recording_info.is_recording /\ current_recording_info.stream_id = s)
               => Cardinality(RecordingNow(s)) = 1

(* C5: a monitor pass that sees an auto_record channel that is not recording *)
(* go from offline to live creates exactly one Recording for it (segment 1,  *)
(* status `recording`), and the session afterwards is active with segment 1, *)
(* that channel and that Recording's id.                                     *)
WentLive(s) ==
    /\ ~streams[s].is_live /\ streams'[s].is_live
    /\ streams[s].auto_record /\ ~streams[s].is_recording

C5_MonitorStartsSession ==
    [][\A s \in StreamIds :
          WentLive(s) =>
              LET new == {r \in (Len(recordings) + 1)..Len(recordings') :
                              recordings'[r].stream_id = s}
              IN  /\ Cardinality(new) = 1
                  /\ \A r \in new :
                        /\ recordings'[r].segment_number = 1
                        /\ recordings'[r].status = "recording"
                        /\ current_recording_info'.is_recording
                        /\ current_recording_info'.current_segment = 1
                        /\ current_recording_info'.stream_id = s
                        /\ current_recording_info'.recording_id = r]_vars

(* C6: a scheduler pass that finds the session active with elapsed >=       *)
(* SEGMENT_DURATION rotates: it goes on to seal the current Recording, and  *)
(* when the rotation ends the sealed Recording is `processing` with its end *)
(* time and duration = elapsed, one new Recording with the next segment     *)
(* number and status `recording` exists, and the session points at it with  *)
(* the segment clock reset.                                                 *)
PassOverDue ==
    /\ sw.pc = "pass" /\ sw'.pc # "pass"
    /\ current_recording_info.is_recording
    /\ current_recording_info.segment_start_time # None
    /\ now - current_recording_info.segment_start_time >= SEGMENT_DURATION

RotationEnds == sw.pc = "update" /\ sw'.pc = "sleep"

C6_PassRotatesOnce ==
    [][/\ PassOverDue => sw'.pc = "seal"
       /\ RotationEnds =>
            /\ recordings'[sw.recording_id].status = "processing"
            /\ recordings'[sw.recording_id].ended_at
            /\ recordings'[sw.recording_id].duration = sw.elapsed
            /\ recordings'[sw.new_id].segment_number
                   = recordings'[sw.recording_id].segment_number + 1
            /\ recordings'[sw.new_id].status = "recording"
            /\ current_recording_info'.recording_id = sw.new_id
            /\ current_recording_info'.current_segment
                   = recordings'[sw.new_id].segment_number
            /\ current_recording_info'.segment_start_time = now]_vars

(* C7: once the extraction dispatched for a sealed Recording has run, the *)
(* Recording is `completed` or `archived`.                                *)
C7_SealedRecordingFinishes ==
    \A r \in extracted : recordings[r].status \in {"completed", "archived"}

----------------------------------------------------------------------------
(* Claims about the trigger evaluator, under SpecTrigger *)

ClipsOfEvent(e) == {c \in 1..Len(clips) : clips[c].event_id = e}

(* C3: every TriggerEvent is processed when a trigger_worker pass ends, *)
(* whatever the events and the ClipTrigger table hold.                  *)
C3_PassConsumesEveryEvent ==
    [][(tw.pc = "pass" /\ tw'.pc # "pass")
          => \A e \in 1..Len(events) : events'[e].processed]_vars

(* C4: each TriggerEvent is evaluated in at most one committed pass, the  *)
(* one that marks it processed, and yields at most one Clip; once it is   *)
(* processed no later pass evaluates it again or adds a Clip for it.      *)
C4_EventConsumedOnce ==
    /\ [](\A e \in 1..Len(events) :
             /\ events[e].evaluated = (IF events[e].processed THEN 1 ELSE 0)
             /\ Cardinality(ClipsOfEvent(e)) <= 1
             /\ ClipsOfEvent(e) # {} => events[e].processed)
    /\ [][\A e \in 1..Len(events) :
             events[e].processed =>
                 /\ events'[e] = events[e]
                 /\ ClipsOfEvent(e)' = ClipsOfEvent(e)]_vars

(* C4 witness: with two enabled triggers of one kind, an earlier pass has   *)
(* consumed one event and stored its Clip, and the pass that just ended     *)
(* aborted on a second event, which is left unprocessed and unevaluated.    *)
C4_Witness ==
    /\ Cardinality(EnabledTriggerIds) = 2
    /\ tw.pc = "backoff"
    /\ \E e1, e2 \in 1..Len(events) :
          /\ events[e1].processed /\ Cardinality(ClipsOfEvent(e1)) = 1
          /\ ~events[e2].processed /\ events[e2].evaluated = 0

----------------------------------------------------------------------------
(* Claims about the Clip table, under SpecClips *)

(* C8: every Clip that is not yet `ready` or `failed` is in the hands of an *)
(* extraction that will finalize it.                                        *)
C8_ClipHandedToExtraction ==
    \A c \in 1..Len(clips) :
        clips[c].status \in {"pending", "processing"} => c \in clip_threads

(* C9: every Clip satisfies end_time = start_time + duration. *)
C9_ClipWindow ==
    \A c \in 1..Len(clips) : clips[c].end_time = clips[c].start_time + clips[c].duration

----------------------------------------------------------------------------
(* Claims about the Upload table, under SpecUpload *)

UploadMoves ==
    {<<"pending", "uploading">>, <<"pending", "failed">>,
     <<"uploading", "completed">>, <<"uploading", "failed">>}

(* C10: an Upload's status moves only pending -> uploading -> completed or *)
(* -> failed, its progress never decreases, and an Upload in status        *)
(* `completed` has progress 100 and keeps the video_url it was given.      *)
C10_UploadMonotone ==
    /\ [](\A u \in 1..Len(uploads) :
             uploads[u].status = "completed" =>
                 uploads[u].progress = 100 /\ uploads[u].video_url # 0)
    /\ [][\A u \in 1..Len(uploads) :
             /\ \/ uploads'[u].status = uploads[u].status
                \/ <<uploads[u].status, uploads'[u].status>> \in UploadMoves
             /\ uploads'[u].progress >= uploads[u].progress
             /\ uploads[u].status = "completed" =>
                    uploads'[u].video_url = uploads[u].video_url]_vars

(* The executions of upload_to_tiktok in flight for Upload u: threads and *)
(* the worker's own call.                                                 *)
RunnersOf(u) ==
    Cardinality({i \in 1..Len(threads) : threads[i].pc # "idle" /\ threads[i].upload_id = u})
        + (IF uw.runner.pc # "idle" /\ uw.runner.upload_id = u THEN 1 ELSE 0)

(* C11: for each Upload at most one execution of upload_to_tiktok is in  *)
(* flight at any time; stated for the case the claim names: while the     *)
(* recovery pass runs the routine for an Upload, no thread runs it too.   *)
C11_OneExecutionPerUpload ==
    \A u \in 1..Len(uploads) :
        (uw.runner.pc # "idle" /\ uw.runner.upload_id = u) => RunnersOf(u) <= 1

(* C12: every Upload a recovery pass finds in status `uploading` with no *)
(* execution in flight (left over from before a restart) is run through  *)
(* upload_to_tiktok by that pass.                                        *)
C12_RecoveryRedrives ==
    [][(/\ uw.pc = "run" /\ uw.runner.pc = "idle" /\ uw.queue # <<>>
        /\ RunnersOf(Head(uw.queue)) = 0
        /\ uw'.pc = "run" /\ uw'.queue = Tail(uw.queue))
          => uw'.runner = StartedThread(Head(uw.queue))]_vars

----------------------------------------------------------------------------
(* Claims about the creation of Upload rows, under SpecQueue *)

UploadsOfClip(c) == {u \in 1..Len(uploads) : uploads[u].clip_id = c}

(* C13: the Uploads of one clip have pairwise distinct part numbers, each *)
(* in [1, total_parts], and there are total_parts of them.                *)
C13_PartsOfClip ==
    \A c \in 1..Len(clips) :
        \A u \in UploadsOfClip(c) :
            /\ uploads[u].part_number \in 1..uploads[u].total_parts
            /\ Cardinality(UploadsOfClip(c)) = uploads[u].total_parts
            /\ \A v \in UploadsOfClip(c) :
                  v # u => uploads[v].part_number # uploads[u].part_number

(* C14: the Uploads of one clip all carry the same total_parts, and the *)
(* total_parts of an Upload never changes.                              *)
C14_SameTotalParts ==
    /\ [](\A c \in 1..Len(clips) : \A u, v \in UploadsOfClip(c) :
             uploads[u].total_parts = uploads[v].total_parts)
    /\ [][\A u \in 1..Len(uploads) :
             uploads'[u].total_parts = uploads[u].total_parts]_vars

(* ceil(d / 60) *)
CeilMinutes(d) == CHOOSE n \in 0..d : 60 * n >= d /\ 60 * (n - 1) < d

----------------------------------------------------------------------------
(* Claims about the extraction of a sealed segment, under SpecExtract *)

ClipsOfRecording(rid) == {c \in 1..Len(clips) : clips[c].recording_id = rid}

ReadyClipsOf(rid) == {c \in ClipsOfRecording(rid) : clips[c].status = "ready"}

(* C16: when the extraction of a sealed Recording finishes, the Recording *)
(* is `archived` with size 0 and its file removed exactly when a clip     *)
(* became ready, auto-delete is enabled and the delete succeeded;         *)
(* otherwise it is `completed` with file and size unchanged.              *)
C16_ReclaimOutcome ==
    [][\A rid \in extracted' \ extracted :
          LET r == recordings'[rid]
          IN  /\ r.status \in {"archived", "completed"}
              /\ r.status = "archived" <=>
                    /\ ReadyClipsOf(rid)' # {}
                    /\ settings.auto_delete_recordings
                    /\ rid \in removed'
              /\ r.status = "archived" => r.file_size = 0
              /\ r.status = "completed" =>
                    rid \notin removed' /\ r.file_size = recordings[rid].file_size]_vars

(* C17: the source file of a Recording that has a `failed` Clip has not *)
(* been deleted by the reclaim step.                                    *)
C17_FailedClipKeepsSource ==
    \A c \in 1..Len(clips) :
        clips[c].status = "failed" => clips[c].recording_id \notin removed

(* C18: for every sealed Recording and every enabled ClipTrigger there is *)
(* at most one Clip of that trigger for that Recording.                   *)
C18_OneClipPerTrigger ==
    \A rid \in 1..Len(recordings), t \in EnabledTriggerIds :
        recordings[rid].ended_at =>
            Cardinality({c \in ClipsOfRecording(rid) : clips[c].trigger_id = t}) <= 1

(* A buffer of the definition, the global one only when the definition *)
(* has none.                                                           *)
OwnOr(x, global) == IF x = None THEN global ELSE x

(* C19: a pass of the trigger worker that commits creates, for every      *)
(* unprocessed event whose kind has one enabled definition, with          *)
(* value >= threshold and whose channel has a Recording in status         *)
(* `recording`, exactly one Clip: `pending`, attached to the most recently *)
(* started such Recording, with duration preBuffer + clipDuration +       *)
(* postBuffer, the global buffers standing in only for omitted ones.      *)
C19_TriggeredClip ==
    [][(tw.pc = "pass" /\ tw'.pc = "sleep") =>
         \A e \in 1..Len(events) :
            LET ev == events[e]
                t == enabled_trigger(ev.trigger_type)
                rec == latest_recording(ev.stream_id)
                new == {c \in (Len(clips) + 1)..Len(clips') : clips'[c].event_id = e}
            IN  (/\ ~ev.processed /\ t # 0 /\ rec # 0
                 /\ \A u \in EnabledTriggerIds :
                       triggers[u].trigger_type = ev.trigger_type => u = t
                 /\ ev.value # None /\ triggers[t].threshold # None
                 /\ triggers[t].clip_duration # None
                 /\ ev.value >= triggers[t].threshold)
                => /\ Cardinality(new) = 1
                   /\ \A c \in new :
                        /\ clips'[c].status = "pending"
                        /\ clips'[c].recording_id = rec
                        /\ clips'[c].duration =
                             OwnOr(triggers[t].pre_buffer, context_pre_buffer)
                               + triggers[t].clip_duration
                               + OwnOr(triggers[t].post_buffer, context_post_buffer)]_vars

(* The tier table of the scoring rule, in tenths *)
TierBase(kind, value) ==
    CASE kind = "donation" ->
            IF value >= 100 THEN 95 ELSE IF value >= 50 THEN 85
            ELSE IF value >= 10 THEN 70 ELSE 60
      [] kind = "chat_activity" ->
            IF value >= 200 THEN 90 ELSE IF value >= 100 THEN 80 ELSE 70
      [] kind = "viewer_count" -> 80
      [] kind = "sentiment" -> 75
      [] kind = "audio_excitement" -> 85
      [] OTHER -> 50

(* C20: for every trigger kind and numeric trigger value the score the    *)
(* function returns lies in [base, min(10.0, base + 0.5)], and so in      *)
(* [0, 10], base being the tier of the kind and the value.                *)
C20_ScoreInTier ==
    (scoring.pc = "returned" /\ scoring.trigger_value >= 0) =>
        LET base == TierBase(scoring.trigger_type, scoring.trigger_value)
        IN  /\ base <= scoring.score
            /\ scoring.score <= Min(100, base + 5)
            /\ scoring.score \in 0..100

(* A donation of 100 scored with the largest draw: 9.5 + 0.5 *)
C20_Witness ==
    /\ scoring.pc = "returned"
    /\ scoring.trigger_type = "donation"
    /\ scoring.trigger_value = 100
    /\ scoring.score = 100

(* The streams that go from live to offline in a step *)
WentOffline == {s \in StreamIds : streams[s].is_live /\ ~streams'[s].is_live}

(* C21: a monitor pass in which streams go from live to offline changes,  *)
(* for them, only the is_live flag: their is_recording flags and every    *)
(* Recording that exists are as before, and the session is as before      *)
(* unless the same pass started one for another stream; an active session *)
(* stays active.                                                          *)
C21_OfflineKeepsRecording ==
    [][WentOffline # {} =>
          /\ \/ current_recording_info' = current_recording_info
             \/ /\ current_recording_info'.is_recording
                /\ current_recording_info'.stream_id \notin WentOffline
          /\ Len(recordings') >= Len(recordings)
          /\ \A r \in 1..Len(recordings) : recordings'[r] = recordings[r]
          /\ \A r \in (Len(recordings) + 1)..Len(recordings') :
                recordings'[r].stream_id \notin WentOffline
          /\ \A s \in WentOffline :
                /\ streams'[s].is_recording = streams[s].is_recording
                /\ streams'[s].auto_record = streams[s].auto_record]_vars

(* A session the monitor started for stream 1 while it was live, still    *)
(* recording after the stream went offline.                               *)
C21_Witness ==
    /\ current_recording_info.is_recording
    /\ current_recording_info.stream_id = 1
    /\ current_recording_info.recording_id = None
    /\ ~streams[1].is_live
    /\ streams[1].is_recording
    /\ \E r \in 1..Len(recordings) :
          recordings[r].stream_id = 1 /\ recordings[r].status = "recording"

(* C22: in a monitor pass, every auto_record stream whose own check and   *)
(* auto-start did not fail ends the pass with the is_live its check        *)
(* returned and, if it went live while not recording, with a Recording of  *)
(* its own, whatever failed for the other streams of the pass.             *)
C22_FailureIsLocal ==
    [][monitor'.pass # monitor.pass =>
          \A s \in StreamIds :
             (streams[s].auto_record /\ monitor'.outcome[s] = "ok") =>
                /\ streams'[s].is_live = monitor'.live[s]
                /\ (monitor'.live[s] /\ ~streams[s].is_live /\ ~streams[s].is_recording)
                      => /\ streams'[s].is_recording
                         /\ \E r \in (Len(recordings) + 1)..Len(recordings') :
                               recordings'[r].stream_id = s]_vars

(* C23: none of the three workers stops: a worker that is in its error  *)
(* backoff starts a pass again, and every worker starts a pass again and *)
(* again.                                                                *)
C23_WorkersKeepRunning ==
    /\ (sw.pc = "backoff") ~> (sw.pc = "pass")
    /\ (tw.pc = "backoff") ~> (tw.pc = "pass")
    /\ (uw.pc = "backoff") ~> (uw.pc = "pass")
    /\ []<>(sw.pc = "pass")
    /\ []<>(tw.pc = "pass")
    /\ []<>(uw.pc = "pass")

(* All three workers in the backoff of a pass that raised *)
C23_Witness ==
    /\ sw.pc = "backoff"
    /\ tw.pc = "backoff"
    /\ uw.pc = "backoff"

(* The session record is empty, or it is active and its segment index and *)
(* channel are those of the Recording its recording id names.             *)
OneSegment(info) ==
    \/ info = EmptyInfo
    \/ /\ info.is_recording
       /\ info.segment_start_time # None
       /\ Truthy(info.recording_id)
       /\ info.recording_id \in 1..Len(recordings)
       /\ recordings[info.recording_id].segment_number = info.current_segment
       /\ recordings[info.recording_id].stream_id =
             (IF Truthy(info.stream_id) THEN info.stream_id ELSE 1)

(* C24: whenever a reader looks at the session record, also in the middle *)
(* of a rotation, a start or a stop, what it reads belongs to one session *)
(* segment.                                                               *)
C24_ReaderSeesOneSegment == OneSegment(current_recording_info)

(* C25: when no rotation is under way the session record is empty or that *)
(* of one segment, however the rotations interleaved with the start and   *)
(* stop requests before.                                                  *)
C25_SessionSerialized ==
    sw.pc \in {"pass", "sleep", "backoff"} => OneSegment(current_recording_info)

C27_IdlePassChangesNothing ==
    [][(/\ sw.pc = "pass" /\ sw'.pc # "pass"
        /\ \/ ~current_recording_info.is_recording
           \/ /\ current_recording_info.segment_start_time # None
              /\ now - current_recording_info.segment_start_time < SEGMENT_DURATION)
         => /\ sw'.pc = "sleep"
            /\ current_recording_info' = current_recording_info
            /\ recordings' = recordings
            /\ streams' = streams
            /\ extracting' = extracting]_vars

(* The scheduler asleep after a pass that did not rotate, the session *)
(* active and its segment younger than the segment duration.          *)
C27_Witness ==
    /\ sw.pc = "sleep"
    /\ sw.recording_id = None
    /\ current_recording_info.is_recording
    /\ current_recording_info.segment_start_time # None
    /\ now - current_recording_info.segment_start_time < SEGMENT_DURATION
    /\ now > 0

(* C28: the step of a rotation that dispatches an extraction dispatches  *)
(* one, for the Recording the rotation sealed and never before; with that *)
(* step the session names the new Recording, and the scheduler goes to    *)
(* sleep without waiting for the extraction.                              *)
C28_DispatchAfterSwitch ==
    [][extracting' \ extracting # {} =>
          /\ extracting' \ extracting = {sw.recording_id}
          /\ sw.recording_id \notin extracted
          /\ recordings[sw.recording_id].ended_at
          /\ sw.new_id # sw.recording_id
          /\ current_recording_info'.recording_id = sw.new_id
          /\ sw'.pc = "sleep"]_vars

(* A second rotation under way while the extraction of the first sealed *)
(* Recording is still in flight.                                        *)
C28_Witness ==
    /\ 1 \in extracting
    /\ sw.pc = "set_start"
    /\ sw.recording_id = 2
    /\ current_recording_info.recording_id = 2

(* C29: every Clip an extraction creates lies inside its Recording when *)
(* the Recording's duration is known: 0 <= start_time and               *)
(* start_time + duration <= the Recording's duration; when it is not    *)
(* known the Clip starts at 0.                                          *)
C29_ClipInsideRecording ==
    [][\A rid \in extracted' \ extracted :
          \A c \in (Len(clips) + 1)..Len(clips') :
             IF Truthy(recordings[rid].duration)
             THEN /\ 0 <= clips'[c].start_time
                  /\ clips'[c].start_time + clips'[c].duration <= recordings[rid].duration
             ELSE clips'[c].start_time = 0]_vars

(* The result _check_stream_live returned for stream s in the latest pass *)
CheckResult(s) == monitor'.live[s] /\ monitor'.outcome[s] # "check_raises"

(* C30: a monitor pass in which every checked channel's result equals its *)
(* stored is_live writes nothing: the Stream rows, the session and the    *)
(* Recordings are unchanged; and no pass modifies a channel whose         *)
(* auto_record is false.                                                  *)
C30_QuietPassWritesNothing ==
    [][monitor'.pass # monitor.pass =>
          /\ \A s \in StreamIds : ~streams[s].auto_record => streams'[s] = streams[s]
          /\ (\A s \in StreamIds : streams[s].auto_record => CheckResult(s) = streams[s].is_live)
                => /\ streams' = streams
                   /\ current_recording_info' = current_recording_info
                   /\ recordings' = recordings]_vars

(* After a second pass: a live, recording auto_record channel that the    *)
(* pass found live, next to a channel the monitor does not watch.         *)
C30_Witness ==
    /\ monitor.pass = 0
    /\ \E s, t \in StreamIds :
          /\ streams[s].auto_record /\ streams[s].is_live /\ streams[s].is_recording
          /\ monitor.live[s] /\ monitor.outcome[s] = "ok"
          /\ ~streams[t].auto_record
    /\ Len(recordings) = 1

(* C31: the extraction of a segment creates Upload rows only for Clips it  *)
(* left `ready`, and only while auto_post_tiktok is enabled: a failed,     *)
(* pending or processing Clip gets no row, and with the setting off no row *)
(* is created.                                                             *)
C31_JobsOnlyForReadyClips ==
    [][extracted' # extracted =>
          \A u \in (Len(uploads) + 1)..Len(uploads') :
             /\ settings.auto_post_tiktok
             /\ uploads'[u].clip_id \in (Len(clips) + 1)..Len(clips')
             /\ clips'[uploads'[u].clip_id].status = "ready"]_vars

(* An extraction that queued one Clip and left a failed Clip without a row *)
C31_Witness ==
    /\ uploads # <<>>
    /\ \E c \in 1..Len(clips) :
          /\ clips[c].status = "failed"
          /\ clips[c].recording_id \in extracted
          /\ \A u \in 1..Len(uploads) : uploads[u].clip_id # c

(* C32: for every trigger kind, a trigger value that is not a number     *)
(* (text float() rejects, the empty text, no value) gives base score 5.0, *)
(* so the returned score lies in [5.0, 5.5].                              *)
C32_UnparsedValueScoresFive ==
    (scoring.pc = "returned" /\ scoring.trigger_value \in {None, EmptyText, NotANumber})
        => scoring.score \in 50..55

(* The step is a stop request that ends an active session *)
StopsSession == current_recording_info.is_recording /\ current_recording_info' = EmptyInfo

(* C33: a stop request leaves the session empty, the Recording that was   *)
(* current (the one created last) out of status `recording` with its end  *)
(* time stamped and the channel's is_recording false; while the session   *)
(* is empty only a session start creates a Recording; a stop with no      *)
(* active session changes no Recording and leaves the session empty.      *)
C33_StopEndsSession ==
    [][/\ StopsSession =>
             /\ recordings # <<>> =>
                   /\ recordings'[Len(recordings)].status # "recording"
                   /\ recordings'[Len(recordings)].ended_at
             /\ Truthy(current_recording_info.stream_id) =>
                   ~streams'[current_recording_info.stream_id].is_recording
       /\ (current_recording_info = EmptyInfo /\ Len(recordings') > Len(recordings))
             => current_recording_info'.is_recording
       /\ (/\ ~current_recording_info.is_recording
           /\ current_recording_info # EmptyInfo
           /\ current_recording_info' = EmptyInfo) => recordings' = recordings]_vars

(* The Clips the observed extraction stored for trigger t *)
BatchClips(t) ==
    {c \in 1..Len(clips) : clips[c].recording_id = extraction.rid /\ clips[c].trigger_id = t}

(* The definitions whose cut the extraction counted as created *)
BatchCounted ==
    {t \in DOMAIN extraction.error :
        extraction.cut_ok[t] /\ extraction.error[t] \in {"none", "store_raises"}}

(* C34: in the extraction of one sealed segment, a definition whose turn  *)
(* raised or whose cut failed leaves its Clip `failed` or no Clip; every  *)
(* definition whose turn did not raise still gets its Clip, `ready` or    *)
(* `failed` by its own cut; and the Recording is finalized with all       *)
(* definitions counted.                                                   *)
C34_BatchIsolation ==
    extraction.file_exists =>
        /\ \A t \in DOMAIN extraction.error :
              IF extraction.error[t] = "none"
              THEN \E c \in BatchClips(t) :
                      clips[c].status = IF extraction.cut_ok[t] THEN "ready" ELSE "failed"
              ELSE \A c \in BatchClips(t) : clips[c].status = "failed"
        /\ recordings[extraction.rid].status \in {"completed", "archived"}
        /\ recordings[extraction.rid].status = "archived"
              <=> (/\ BatchCounted # {}
                   /\ settings.auto_delete_recordings
                   /\ extraction.delete_ok)

(* C35: whenever no rotation is under way, a Recording has status        *)
(* `recording` only if the session is active and its recording_id is that *)
(* Recording.                                                             *)
C35_RecordingIsCurrent ==
    sw.pc \in {"pass", "sleep", "backoff"} =>
        \A r \in 1..Len(recordings) :
            recordings[r].status = "recording" =>
                /\ current_recording_info.is_recording
                /\ current_recording_info.recording_id = r

(* C36: whenever no rotation is under way, a stream's is_recording flag  *)
(* is true exactly when the session is active for that stream.            *)
C36_FlagMatchesSession ==
    sw.pc \in {"pass", "sleep", "backoff"} =>
        \A s \in StreamIds :
            streams[s].is_recording <=>
                (current_recording_info.is_recording /\ current_recording_info.stream_id = s)

(* How far a Recording's status is along recording -> processing -> *)
(* completed | archived                                               *)
StatusRank(status) ==
    IF status = "recording" THEN 0 ELSE IF status = "processing" THEN 1 ELSE 2

(* C37: a Recording's status never moves backwards: a Recording that is  *)
(* `completed` or `archived` never returns to `processing` or            *)
(* `recording`, and a `processing` one never returns to `recording`.     *)
C37_StatusMovesForward ==
    [][\A r \in 1..Len(recordings) :
          StatusRank(recordings'[r].status) >= StatusRank(recordings[r].status)]_vars

(* The loop threads that are inside a pass *)
LoopsInPass == {i \in Loops : stream_monitor.loops[i] = "pass"}

(* C38: whatever starts and stops of the monitor were called, at most one *)
(* loop thread is executing a pass at any time.                           *)
C38_OneMonitorLoop == Cardinality(LoopsInPass) <= 1

(* C39: a start request that finds OBS connected and whose StartRecord   *)
(* call fails answers an error and changes nothing: no Recording is       *)
(* created, the session and the streams' is_recording are unchanged; a    *)
(* request that finds OBS not connected starts the session anyway.        *)
C39_FailedStartChangesNothing ==
    [][start_response'.n # start_response.n =>
          /\ (obs_connected /\ ~start_response'.obs_ok) =>
                /\ start_response'.status = 500
                /\ recordings' = recordings
                /\ current_recording_info' = current_recording_info
                /\ streams' = streams
          /\ ~obs_connected =>
                /\ start_response'.status = 200
                /\ Len(recordings') = Len(recordings) + 1
                /\ recordings'[Len(recordings')].status = "recording"
                /\ current_recording_info'.is_recording
                /\ current_recording_info'.recording_id = Len(recordings')]_vars

(* A start request refused with OBS connected while a session was active *)
C39_Witness ==
    /\ start_response.status = 500
    /\ obs_connected
    /\ current_recording_info.is_recording
    /\ Len(recordings) = 1

====
